---- MODULE Spec2Model ----
(***************************************************************************)
(* Model of the web-scrapper scrape route (the POST handler of             *)
(* app/api/scrape/route.ts in its latest revision, src/unnamed/part_001)   *)
(* and of the pure helpers it calls.                                       *)
(*                                                                         *)
(* Strings are sequences of lexemes.  A lexeme is a fixed block of         *)
(* characters ("http", "s", ":", "/", "a.com", ...); no lexeme is a prefix *)
(* of another one, so equality, startsWith, endsWith and includes of the   *)
(* JavaScript strings are equality, prefix, suffix and contiguous          *)
(* subsequence of the lexeme sequences.  This holds for the URLs.  The     *)
(* texts the metrics read (body text, title, meta contents) are sequences  *)
(* of characters.                                                          *)
(***************************************************************************)
EXTENDS Integers, Sequences, FiniteSets, TLC

----------------------------------------------------------------------------
(* String primitives of the JavaScript runtime. *)

Null == "<null>"

\* String.prototype.startsWith
StartsWith(s, p) ==
  /\ Len(s) >= Len(p)
  /\ SubSeq(s, 1, Len(p)) = p

\* String.prototype.endsWith
EndsWith(s, p) ==
  /\ Len(s) >= Len(p)
  /\ SubSeq(s, Len(s) - Len(p) + 1, Len(s)) = p

\* String.prototype.includes
Includes(s, p) ==
  \E i \in 0..(Len(s) - Len(p)) : SubSeq(s, i + 1, i + Len(p)) = p

\* the lexemes written in upper case and their lower-case spelling
LowerLex(c) ==
  CASE c = "HTTP" -> "http"
    [] c = ".PNG" -> ".png"
    [] c = "B.COM" -> "b.com"
    [] OTHER -> c

\* String.prototype.toLowerCase
ToLowerCase(s) == [i \in 1..Len(s) |-> LowerLex(s[i])]

\* index of the first lexeme of s that lies in set cs, 0 when there is none
RECURSIVE IndexOfAny(_, _, _)
IndexOfAny(s, cs, i) ==
  IF i > Len(s) THEN 0
  ELSE IF s[i] \in cs THEN i
  ELSE IndexOfAny(s, cs, i + 1)

\* s from its n-th lexeme on
From(s, n) == SubSeq(s, n, Len(s))

\* s up to, and without, its n-th lexeme
Before(s, n) == SubSeq(s, 1, n - 1)

----------------------------------------------------------------------------
(* The WHATWG URL parser of the runtime, new URL(input[, base]), on lexeme *)
(* sequences.  Ports and user information are not part of the alphabet.    *)

\* the punctuation lexemes; every other lexeme is made of scheme characters
Punct == {":", "/", "?", "#", "[", "@", "=", ";", " "}

\* lexemes that begin with a dot: they cannot begin a scheme
DotLex == {".", "..", ".png", ".PNG", ".pdf", ".gif", ".jpg"}

\* lexemes that are forbidden host code points
ForbiddenHost == {"[", " ", "@", "=", ";", ":"}

\* the special schemes of the URL standard (the ones used here)
SpecialSchemes == {<<"http">>, <<"http", "s">>, <<"ftp">>}

\* a parse failure: new URL throws TypeError
Failure ==
  [ok |-> FALSE, scheme |-> <<>>, host |-> <<>>, path |-> <<>>, opaque |-> FALSE,
   hasQuery |-> FALSE, query |-> <<>>, hasFragment |-> FALSE, fragment |-> <<>>]

\* "no base given": new URL(input) with one argument
NoBase == Failure

\* position of the ":" that ends the scheme of s, 0 when s has no scheme
SchemeEnd(s) ==
  LET i == IndexOfAny(s, Punct, 1)
  IN IF i > 1 /\ s[i] = ":" /\ s[1] \notin DotLex THEN i ELSE 0

\* the segments of a path that starts with "/"
RECURSIVE Segments(_)
Segments(p) ==
  IF p = <<>> THEN <<>>
  ELSE LET rest == Tail(p)
           j == IndexOfAny(rest, {"/"}, 1)
       IN IF j = 0 THEN <<rest>>
          ELSE <<Before(rest, j)>> \o Segments(From(rest, j))

\* the path state's handling of "." and ".." segments
RECURSIVE RemoveDots(_, _)
RemoveDots(segs, acc) ==
  IF segs = <<>> THEN acc
  ELSE LET seg == Head(segs)
           last == Len(segs) = 1
           popped == IF acc = <<>> THEN acc ELSE SubSeq(acc, 1, Len(acc) - 1)
       IN IF seg = <<"..">>
          THEN RemoveDots(Tail(segs), IF last THEN Append(popped, <<>>) ELSE popped)
          ELSE IF seg = <<".">>
          THEN RemoveDots(Tail(segs), IF last THEN Append(acc, <<>>) ELSE acc)
          ELSE RemoveDots(Tail(segs), Append(acc, seg))

\* the path string of a list of segments
RECURSIVE JoinSegments(_)
JoinSegments(segs) ==
  IF segs = <<>> THEN <<>>
  ELSE <<"/">> \o Head(segs) \o JoinSegments(Tail(segs))

\* the path of a special URL from the input's path part (empty gives "/")
SpecialPath(p) ==
  IF p = <<>> THEN <<"/">>
  ELSE JoinSegments(RemoveDots(Segments(p), <<>>))

\* s without its leading "/" lexemes
RECURSIVE SkipSlashes(_)
SkipSlashes(s) ==
  IF s # <<>> /\ Head(s) = "/" THEN SkipSlashes(Tail(s)) ELSE s

\* the URL of a special scheme with host h and path part p
SpecialUrl(sc, h, p, qs, fs) ==
  IF h = <<>> \/ \E i \in 1..Len(h) : h[i] \in ForbiddenHost
  THEN Failure
  ELSE [ok |-> TRUE, scheme |-> sc, host |-> ToLowerCase(h),
        path |-> SpecialPath(p), opaque |-> FALSE,
        hasQuery |-> qs.found, query |-> qs.after,
        hasFragment |-> fs.found, fragment |-> fs.after]

\* the authority r (its leading slashes skipped); the host ends at j, the next "/"
AuthorityAt(sc, r, j, qs, fs) ==
  IF j = 0 THEN SpecialUrl(sc, r, <<>>, qs, fs)
  ELSE SpecialUrl(sc, Before(r, j), From(r, j), qs, fs)

AuthorityFrom(sc, r, qs, fs) == AuthorityAt(sc, r, IndexOfAny(r, {"/"}, 1), qs, fs)

\* authority and path of a special URL
SpecialAuthority(sc, rest, qs, fs) == AuthorityFrom(sc, SkipSlashes(rest), qs, fs)

\* the segments of the base's path without the last one
BaseDirs(bs) == IF bs = <<>> THEN <<>> ELSE SubSeq(bs, 1, Len(bs) - 1)

\* a reference without scheme and authority, resolved against a base
RelativeRef(m, base, qs, fs) ==
  IF ~base.ok \/ base.opaque THEN Failure
  ELSE IF StartsWith(m, <<"/">>)
  THEN [base EXCEPT !.path = SpecialPath(m), !.hasQuery = qs.found, !.query = qs.after,
                    !.hasFragment = fs.found, !.fragment = fs.after]
  ELSE IF m = <<>>
  THEN [base EXCEPT !.hasQuery = IF qs.found THEN TRUE ELSE base.hasQuery,
                    !.query = IF qs.found THEN qs.after ELSE base.query,
                    !.hasFragment = fs.found, !.fragment = fs.after]
  ELSE [base EXCEPT
          !.path = JoinSegments(RemoveDots(BaseDirs(Segments(base.path))
                                             \o Segments(<<"/">> \o m), <<>>)),
          !.hasQuery = qs.found, !.query = qs.after,
          !.hasFragment = fs.found, !.fragment = fs.after]

\* s split at lexeme i (0: s has none): the part before it and the part after it
SplitAt(s, i) ==
  IF i = 0 THEN [found |-> FALSE, before |-> s, after |-> <<>>]
  ELSE [found |-> TRUE, before |-> Before(s, i), after |-> From(s, i + 1)]

\* s split at its first lexeme c
Split(s, c) == SplitAt(s, IndexOfAny(s, {c}, 1))

\* the input with scheme sc (lower case) and the rest after the ":"
WithScheme(sc, rest, base, qs, fs) ==
  IF sc \in SpecialSchemes
  THEN IF base.ok /\ base.scheme = sc /\ ~StartsWith(rest, <<"/">>)
       THEN RelativeRef(rest, base, qs, fs)
       ELSE SpecialAuthority(sc, rest, qs, fs)
  ELSE [ok |-> TRUE, scheme |-> sc, host |-> <<>>, path |-> rest,
        opaque |-> ~StartsWith(rest, <<"/">>),
        hasQuery |-> qs.found, query |-> qs.after,
        hasFragment |-> fs.found, fragment |-> fs.after]

\* the input m (query and fragment split off) whose scheme ends at se
ParseMain(m, se, base, qs, fs) ==
  IF se > 0
  THEN WithScheme(ToLowerCase(Before(m, se)), From(m, se + 1), base, qs, fs)
  ELSE IF base.ok /\ ~base.opaque /\ StartsWith(m, <<"/", "/">>)
  THEN SpecialAuthority(base.scheme, m, qs, fs)
  ELSE RelativeRef(m, base, qs, fs)

ParseQuery(qs, base, fs) == ParseMain(qs.before, SchemeEnd(qs.before), base, qs, fs)

ParseFragment(fs, base) == ParseQuery(Split(fs.before, "?"), base, fs)

\* new URL(s, base): the URL record, or Failure where the constructor throws
ParseUrl(s, base) == ParseFragment(Split(s, "#"), base)

\* URL.protocol
Protocol(u) == u.scheme \o <<":">>

\* URL.host and URL.hostname (no ports in the alphabet: they coincide)
Host(u) == u.host
Hostname(u) == u.host

\* URL.pathname
Pathname(u) == u.path

\* URL.href: the serialisation of the record
Href(u) ==
  Protocol(u)
    \o (IF u.opaque \/ u.scheme \notin SpecialSchemes THEN <<>> ELSE <<"/", "/">> \o u.host)
    \o u.path
    \o (IF u.hasQuery THEN <<"?">> \o u.query ELSE <<>>)
    \o (IF u.hasFragment THEN <<"#">> \o u.fragment ELSE <<>>)

\* new URL(s): the one-argument constructor
NewUrl(s) == ParseUrl(s, NoBase)

\* the input resolved against the parsed base: a bad base throws too
ParseWithBase(s, b) == IF b.ok THEN ParseUrl(s, b) ELSE Failure

\* new URL(s, baseUrl)
NewUrlWithBase(s, baseUrl) == ParseWithBase(s, ParseUrl(baseUrl, NoBase))

----------------------------------------------------------------------------
(* The URL helpers of the route. *)

\* an element attribute: absent (attr() gives undefined) or a string
NoAttr == [has |-> FALSE, val |-> <<>>]
Attr(s) == [has |-> TRUE, val |-> s]

\* $el.attr(name) || ''
OrEmpty(a) == IF a.has THEN a.val ELSE <<>>

\* `${urlObj.protocol}//${urlObj.host}${url}`, or url where new URL(baseUrl) threw
RootRelative(urlObj, url) ==
  IF urlObj.ok THEN Protocol(urlObj) \o <<"/", "/">> \o Host(urlObj) \o url ELSE url

\* new URL(url, baseUrl).href, or url where the constructor threw
HrefOrRaw(r, url) == IF r.ok THEN Href(r) ELSE url

\* normalizeUrl with every non-empty input sent through the URL parser
normalizeUrl_AlwaysParse(baseUrl, url) ==
  IF url = <<>> THEN <<>>
  ELSE HrefOrRaw(NewUrlWithBase(url, baseUrl), url)

normalizeUrl(baseUrl, url) ==
  IF url = <<>> THEN <<>>
  ELSE IF StartsWith(url, <<"data", ":">>) THEN url
  ELSE IF StartsWith(url, <<"http", ":", "/", "/">>)
          \/ StartsWith(url, <<"http", "s", ":", "/", "/">>) THEN url
  ELSE IF StartsWith(url, <<"/", "/">>) THEN <<"http", "s", ":">> \o url
  ELSE IF StartsWith(url, <<"/">>) THEN RootRelative(NewUrl(baseUrl), url)
  ELSE HrefOrRaw(NewUrlWithBase(url, baseUrl), url)

\* the extension allowlist of isValidImageUrl
ImageExtensions == {<<".jpg">>, <<".jpeg">>, <<".png">>, <<".gif">>, <<".webp">>, <<".svg">>}

\* urlObj.pathname.toLowerCase() ends with an extension of the allowlist
HasImageExtension(urlObj) ==
  urlObj.ok /\ \E e \in ImageExtensions : EndsWith(ToLowerCase(Pathname(urlObj)), e)

\* isValidImageUrl with the extension looked for at the end of the whole URL
isValidImageUrl_WholeUrl(url) ==
  IF url = <<>> THEN FALSE
  ELSE IF StartsWith(url, <<"data", ":", "image", "/">>) THEN TRUE
  ELSE NewUrl(url).ok /\ \E e \in ImageExtensions : EndsWith(ToLowerCase(url), e)

isValidImageUrl(url) ==
  IF url = <<>> THEN FALSE
  ELSE IF StartsWith(url, <<"data", ":", "image", "/">>) THEN TRUE
  ELSE HasImageExtension(NewUrl(url))

----------------------------------------------------------------------------
(* Texts are sequences of characters.  The regular expressions of the text *)
(* metrics are character classes: \s, [.!?], \W and [^aeiouy].             *)

\* the characters of the texts
Letters ==
  {"a", "b", "d", "e", "g", "o", "r", "t", "w", "x", "y", "G", "B"}
Digits == {"0", "1", "2", "4", "9"}
Whitespace == {" ", "\n"}
Terminators == {".", "!", "?"}
Alphabet == Letters \cup Digits \cup Whitespace \cup Terminators \cup {"_", ","}

\* the classes the regular expressions split on
NonWord == Alphabet \ (Letters \cup Digits \cup {"_"})
NonVowel == Alphabet \ {"a", "e", "i", "o", "u", "y"}

\* the lower-case spelling of a character
LowerChar(c) ==
  CASE c = "G" -> "g"
    [] c = "B" -> "b"
    [] OTHER -> c

\* String.prototype.toLowerCase on a text
TextToLowerCase(text) == [i \in 1..Len(text) |-> LowerChar(text[i])]

\* String.prototype.trim
TrimBounds(text, kept) ==
  IF kept = {} THEN <<>>
  ELSE SubSeq(text, CHOOSE i \in kept : \A j \in kept : i <= j,
                    CHOOSE i \in kept : \A j \in kept : j <= i)

Trim(text) == TrimBounds(text, {i \in 1..Len(text) : text[i] \notin Whitespace})

\* the pieces of a text from the pieces of its two halves: the last piece of
\* the left half and the first piece of the right half are one piece, and
\* they are no piece at all where a separator run spans the two halves
JoinPieces(left, right, sameRun) ==
  IF sameRun
  THEN SubSeq(left, 1, Len(left) - 1) \o Tail(right)
  ELSE SubSeq(left, 1, Len(left) - 1) \o <<left[Len(left)] \o Head(right)>> \o Tail(right)

\* String.prototype.split with a regular expression that is a repeated
\* character class: the pieces between the separator runs; '' gives [''], a
\* separator run at either end gives an empty piece there
RECURSIVE SplitOn(_, _)
SplitHalves(text, sep, half) ==
  JoinPieces(SplitOn(SubSeq(text, 1, half), sep),
             SplitOn(SubSeq(text, half + 1, Len(text)), sep),
             text[half] \in sep /\ text[half + 1] \in sep)

SplitOn(text, sep) ==
  IF text = <<>> THEN <<text>>
  ELSE IF Len(text) = 1 THEN (IF text[1] \in sep THEN <<<<>>, <<>>>> ELSE <<text>>)
  ELSE SplitHalves(text, sep, Len(text) \div 2)

\* array.filter(Boolean) on strings: the empty string is left out
FilterBoolean(pieces) == SelectSeq(pieces, LAMBDA p : p # <<>>)

----------------------------------------------------------------------------
(* Numbers.  The quotients of the metrics are kept exact, as a numerator   *)
(* over a positive denominator; a zero denominator stands for the NaN or   *)
(* Infinity of a division by zero.                                         *)

Abs(n) == IF n < 0 THEN 0 - n ELSE n

RECURSIVE Gcd(_, _)
Gcd(a, b) == IF b = 0 THEN a ELSE Gcd(b, a % b)

\* the quotient num / den in lowest terms
ReduceBy(num, den, g) == [num |-> num \div g, den |-> den \div g]
Quot(num, den) ==
  IF den = 0 THEN [num |-> num, den |-> 0]
  ELSE IF den < 0 THEN ReduceBy(0 - num, 0 - den, Gcd(Abs(num), Abs(den)))
  ELSE ReduceBy(num, den, Gcd(Abs(num), den))

Num(n) == [num |-> n, den |-> 1]

\* a finite number (neither NaN nor Infinity)
IsFinite(x) == x.den # 0

Plus(x, y) == Quot(x.num * y.den + y.num * x.den, x.den * y.den)
Minus(x, y) == Quot(x.num * y.den - y.num * x.den, x.den * y.den)
Times(x, y) == Quot(x.num * y.num, x.den * y.den)
Over(x, y) == Quot(x.num * y.den, x.den * y.num)

\* x < y and x <= y; false when either side is not finite, as for NaN
Less(x, y) == IsFinite(x) /\ IsFinite(y) /\ x.num * y.den < y.num * x.den
LessEq(x, y) == IsFinite(x) /\ IsFinite(y) /\ x.num * y.den <= y.num * x.den

\* Math.ceil and Math.round of a finite number
Ceil(x) == 0 - ((0 - x.num) \div x.den)
Round(x) == (2 * x.num + x.den) \div (2 * x.den)

\* the score handed on as computed
Clamp_Unbounded(x) == x

\* Math.max(0, Math.min(100, x))
Clamp(x) ==
  IF ~IsFinite(x)
  THEN (IF x.num > 0 THEN Num(100) ELSE IF x.num < 0 THEN Num(0) ELSE x)
  ELSE IF Less(Num(100), x) THEN Num(100)
  ELSE IF Less(x, Num(0)) THEN Num(0)
  ELSE x

----------------------------------------------------------------------------
(* The text metrics of the route. *)

\* the reading time rounded down
calculateReadingTime_Floor(text) == Len(SplitOn(Trim(text), Whitespace)) \div 200

\* calculateReadingTime
calculateReadingTime(text) == Ceil(Quot(Len(SplitOn(Trim(text), Whitespace)), 200))

\* the lexicons of analyzeSentiment
PositiveLexicon ==
  {<<"g", "o", "o", "d">>, <<"g", "r", "e", "a", "t">>, <<"a", "w", "e", "s", "o", "m", "e">>,
   <<"e", "x", "c", "e", "l", "l", "e", "n", "t">>, <<"h", "a", "p", "p", "y">>, <<"b", "e", "s", "t">>}
NegativeLexicon ==
  {<<"b", "a", "d">>, <<"p", "o", "o", "r">>, <<"t", "e", "r", "r", "i", "b", "l", "e">>,
   <<"w", "o", "r", "s", "t">>, <<"h", "a", "t", "e">>, <<"a", "w", "f", "u", "l">>}

\* the difference of the two counts, not divided by the number of words
SentimentScore_Difference(words, positiveWords, negativeWords) ==
  Num(Len(positiveWords) - Len(negativeWords))

\* the score of analyzeSentiment from its word lists
SentimentScore(words, positiveWords, negativeWords) ==
  IF Len(words) > 0
  THEN Quot(Len(positiveWords) - Len(negativeWords), Len(words))
  ELSE Num(0)

\* the result of analyzeSentiment from its word lists and its score
SentimentOf(words, positiveWords, negativeWords, score) ==
  [score |-> score,
   comparative |-> IF Len(words) > 0 THEN Over(score, Num(Len(words))) ELSE Num(0),
   positive |-> positiveWords,
   negative |-> negativeWords]

SentimentOfWords(words, positiveWords, negativeWords) ==
  SentimentOf(words, positiveWords, negativeWords,
              SentimentScore(words, positiveWords, negativeWords))

SentimentWords(words) ==
  SentimentOfWords(words,
                   SelectSeq(words, LAMBDA word : word \in PositiveLexicon),
                   SelectSeq(words, LAMBDA word : word \in NegativeLexicon))

analyzeSentiment(text) == SentimentWords(SplitOn(TextToLowerCase(text), Whitespace))

\* 206.835 - 1.015 * (words / sentences) - 84.6 * (syllables / words)
FleschScore(words, sentences, syllables) ==
  Minus(Minus(Quot(206835, 1000),
              Times(Quot(1015, 1000), Over(Num(words), Num(sentences)))),
        Times(Quot(846, 10), Over(Num(syllables), Num(words))))

calculateReadabilityScore(text) ==
  Clamp(FleschScore(Len(SplitOn(text, Whitespace)),
                    Len(SplitOn(text, Terminators)),
                    Len(FilterBoolean(SplitOn(TextToLowerCase(text), NonVowel)))))

\* the positions of words that hold the first occurrence of their word
FirstOccurrences(words) ==
  {i \in 1..Len(words) : \A j \in 1..(i - 1) : words[j] # words[i]}

\* the n-th smallest element of a set of integers
NthOf(S, n) == CHOOSE i \in S : Cardinality({j \in S : j < i}) = n - 1

\* the distinct words in the order of their first occurrence: the order in
\* which forEach creates the properties of frequencies
DistinctAt(words, firsts) == [n \in 1..Cardinality(firsts) |-> words[NthOf(firsts, n)]]
Distinct(words) == DistinctAt(words, FirstOccurrences(words))

\* a property name that is an array index ('2024', not '0123'): a canonical
\* decimal numeral
IsIndexKey(word) ==
  /\ word # <<>>
  /\ Len(word) <= 9
  /\ \A i \in 1..Len(word) : word[i] \in Digits
  /\ (word[1] = "0" => Len(word) = 1)

DigitVal(c) ==
  CASE c = "0" -> 0 [] c = "1" -> 1 [] c = "2" -> 2 [] c = "4" -> 4 [] c = "9" -> 9

RECURSIVE NumVal(_)
NumVal(word) ==
  IF word = <<>> THEN 0
  ELSE 10 * NumVal(SubSeq(word, 1, Len(word) - 1)) + DigitVal(word[Len(word)])

\* the index keys of an object in ascending numeric order
IndexKeysOf(keys, vals) ==
  [n \in 1..Cardinality(vals) |->
     CHOOSE i \in 1..Len(keys) :
       IsIndexKey(keys[i]) /\ NumVal(keys[i]) = NthOf(vals, n)]

\* Object.keys order: the index keys in ascending numeric order, then the
\* other keys in the order of their creation
KeysOfFrom(indexKeys, keys) ==
  [n \in 1..Len(indexKeys) |-> keys[indexKeys[n]]]
    \o SelectSeq(keys, LAMBDA k : ~IsIndexKey(k))

ObjectKeys(keys) ==
  KeysOfFrom(IndexKeysOf(keys, {NumVal(keys[i]) : i \in {j \in 1..Len(keys) : IsIndexKey(keys[j])}}),
             keys)

\* frequencies[word]: the number of occurrences of word
CountOf(words, word) == Cardinality({i \in 1..Len(words) : words[i] = word})

\* Object.entries(frequencies)
EntriesOf(words, keys) ==
  [n \in 1..Len(keys) |-> [keyword |-> keys[n], count |-> CountOf(words, keys[n])]]

\* one step of the stable sort by descending count: e goes behind the entries
\* that do not have a smaller count
InsertByCount(sorted, e) ==
  SubSeq(sorted, 1, Cardinality({i \in 1..Len(sorted) : sorted[i].count >= e.count}))
    \o <<e>>
    \o SubSeq(sorted, Cardinality({i \in 1..Len(sorted) : sorted[i].count >= e.count}) + 1,
              Len(sorted))

\* array.sort(([, a], [, b]) => b - a): stable
RECURSIVE SortByCount(_)
SortByCount(entries) ==
  IF entries = <<>> THEN <<>>
  ELSE InsertByCount(SortByCount(SubSeq(entries, 1, Len(entries) - 1)),
                     entries[Len(entries)])

\* array.slice(0, n)
Slice(seq, n) == SubSeq(seq, 1, IF Len(seq) < n THEN Len(seq) ELSE n)

\* the map callback of topKeywords
WithDensity(entries, wordCount) ==
  [n \in 1..Len(entries) |->
     [keyword |-> entries[n].keyword,
      count |-> entries[n].count,
      density |-> Times(Quot(entries[n].count, wordCount), Num(100))]]

\* the tokens analyzeKeywords counts
KeywordTokens(text) ==
  SelectSeq(SplitOn(TextToLowerCase(text), NonWord), LAMBDA word : Len(word) > 3)

TopKeywordsOf(words) ==
  WithDensity(Slice(SortByCount(EntriesOf(words, ObjectKeys(Distinct(words)))), 10),
              Len(words))

analyzeKeywords(text) == [topKeywords |-> TopKeywordsOf(KeywordTokens(text))]

----------------------------------------------------------------------------
(* The parsed document: the elements the extractor selects, in document    *)
(* order.  An element is an img (with src and alt), an a (with href), or   *)
(* one of title, meta, link, heading and text node.                        *)

ImgEl(src, alt) == [tag |-> "img", url |-> src, alt |-> alt]
AEl(href) == [tag |-> "a", url |-> href, alt |-> NoAttr]

\* $(tag): the elements with that tag, in document order
Select(doc, tag) == SelectSeq(doc, LAMBDA el : el.tag = tag)

\* the other elements of the parsed document: title, meta, link, the headings
\* h1..h6 and the text nodes of body; their texts and contents are texts
TitleEl(text) == [tag |-> "title", text |-> text]
MetaEl(attr, key, content) == [tag |-> "meta", attr |-> attr, key |-> key, content |-> content]
LinkRelEl(rel) == [tag |-> "link", rel |-> rel]
HEl(level) == [tag |-> "h", level |-> level]
TextEl(text) == [tag |-> "#text", text |-> text]

\* .text() of a selection: the texts of its elements, concatenated
RECURSIVE TextOf(_)
TextOf(els) == IF els = <<>> THEN <<>> ELSE els[1].text \o TextOf(Tail(els))

\* $('title').text()
TitleText(doc) == TextOf(Select(doc, "title"))

\* $('body').text()
BodyText(doc) == TextOf(Select(doc, "#text"))

\* $('meta[name="<key>"]')
MetaByName(doc, key) ==
  SelectSeq(doc, LAMBDA el : el.tag = "meta" /\ el.attr = "name" /\ el.key = key)

\* $('meta[name="<key>"], meta[property="<key>"]')
MetaByKey(doc, key) == SelectSeq(doc, LAMBDA el : el.tag = "meta" /\ el.key = key)

\* selection.attr('content'): the attribute of the first element, undefined
\* for the empty selection
ContentAttr(els) == IF els = <<>> THEN NoAttr ELSE els[1].content

\* the levels of the elements of a selection of headings
LevelsOf(els) == [i \in 1..Len(els) |-> els[i].level]

\* $('h1, h2, h3, h4, h5, h6').map(...).get(): the headings in document order
HeadingsOf(els) == [i \in 1..Len(els) |-> [level |-> els[i].level]]
ExtractHeadings(doc) == HeadingsOf(Select(doc, "h"))

\* extractMetaTags: title, description and viewport
extractMetaTags(doc) ==
  [title |-> Trim(TitleText(doc)),
   description |-> ContentAttr(MetaByName(doc, "description")),
   viewport |-> ContentAttr(MetaByName(doc, "viewport"))]

\* the entry of an img element with normalised src; keep is FALSE where the
\* callback returns null
ImageOf(src, el) == [keep |-> isValidImageUrl(src), src |-> src, alt |-> OrEmpty(el.alt)]

\* the image entry of one img element
ImageEntry(el, baseUrl) == ImageOf(normalizeUrl(baseUrl, OrEmpty(el.url)), el)

\* the isExternal expression of the link callback (baseUrl is the fetched URL:
\* it parses)
IsExternal(href, baseUrl) ==
  StartsWith(href, <<"http">>) /\ ~Includes(href, Hostname(NewUrl(baseUrl)))

\* the entry of an a element with normalised href
LinkOf(href, baseUrl) ==
  [keep |-> href # <<>>, href |-> href,
   isExternal |-> IF href # <<>> THEN IsExternal(href, baseUrl) ELSE FALSE]

\* the link entry of one a element
LinkEntry(el, baseUrl) == LinkOf(normalizeUrl(baseUrl, OrEmpty(el.url)), baseUrl)

\* $('img').map(callback).get().filter(Boolean): a null entry is left out
ExtractImages(els, baseUrl) ==
  SelectSeq([i \in 1..Len(els) |-> ImageEntry(els[i], baseUrl)], LAMBDA e : e.keep)

\* $('a').map(callback).get().filter(Boolean)
ExtractLinks(els, baseUrl) ==
  SelectSeq([i \in 1..Len(els) |-> LinkEntry(els[i], baseUrl)], LAMBDA e : e.keep)

\* extractStructuredContent: the images, the links and the headings of the
\* document
extractStructuredContent(doc, baseUrl) ==
  [images |-> ExtractImages(Select(doc, "img"), baseUrl),
   links |-> ExtractLinks(Select(doc, "a"), baseUrl),
   headings |-> ExtractHeadings(doc)]

----------------------------------------------------------------------------
(* analyzeSEO of the route.  A check carries its score, its message and    *)
(* the recommendation its branch pushes (none, or one).                    *)

\* the checks in the order of their declaration
CheckNames ==
  <<"title", "description", "headings", "images", "links", "meta",
    "performance", "readability", "keywords", "mobile">>

Check(score, message, push) == [score |-> score, message |-> message, push |-> push]

\* { score: 0, message: '' }: a check no branch assigns
Unset == Check(Num(0), "", <<>>)

ServerTitle(title) ==
  IF Len(title) >= 30 /\ Len(title) <= 60
  THEN Check(Num(100), "Title length is optimal", <<>>)
  ELSE Check(Num(50), "Title length should be between 30-60 characters",
             <<"Optimize title length to be between 30-60 characters">>)

ServerDescription(description) ==
  IF description.has /\ description.val # <<>>
     /\ Len(description.val) >= 120 /\ Len(description.val) <= 160
  THEN Check(Num(100), "Meta description length is optimal", <<>>)
  ELSE Check(Num(50), "Meta description should be between 120-160 characters",
             <<"Add or optimize meta description length">>)

\* the every() callback over $('h2, h3, h4, h5, h6').toArray()
hasProperHeadingStructure(levels) ==
  \A i \in 1..Len(levels) : i = 1 \/ levels[i] <= levels[i - 1] + 1

ServerHeadings(h1Count, levels) ==
  IF h1Count = 1 /\ hasProperHeadingStructure(levels)
  THEN Check(Num(100), "Heading structure is optimal", <<>>)
  ELSE Check(Num(60), "Improve heading hierarchy",
             <<"Ensure proper heading hierarchy and single H1 tag">>)

\* images.length > 0 ? (imagesWithAlt / images.length) * 100 : 100
ImageScore(imagesWithAlt, images) ==
  IF images > 0 THEN Times(Quot(imagesWithAlt, images), Num(100)) ELSE Num(100)

ServerImagesOf(imageScore) ==
  IF imageScore = Num(100)
  THEN Check(imageScore, "All images have alt text", <<>>)
  ELSE Check(imageScore, "Some images missing alt text",
             IF Less(imageScore, Num(100)) THEN <<"Add alt text to all images">> ELSE <<>>)

ServerImages(images) ==
  ServerImagesOf(ImageScore(Len(SelectSeq(images, LAMBDA img : OrEmpty(img.alt) # <<>>)),
                            Len(images)))

ServerLinksOf(internalLinks, externalLinks) ==
  IF internalLinks > 0 /\ externalLinks > 0
  THEN Check(Num(100), "Good mix of internal and external links", <<>>)
  ELSE Check(Num(70), "Consider adding more diverse links",
             <<"Add a better mix of internal and external links">>)

\* internal: href && !href.startsWith('http'); external: the other a elements
ServerLinksFrom(links, internalLinks) ==
  ServerLinksOf(internalLinks, Len(links) - internalLinks)

ServerLinks(links) ==
  ServerLinksFrom(links,
    Len(SelectSeq(links, LAMBDA a : OrEmpty(a.url) # <<>>
                                     /\ ~StartsWith(OrEmpty(a.url), <<"http">>))))

RequiredMeta ==
  {"description", "viewport", "robots", "og:title", "og:description", "twitter:card"}

ServerMeta(doc) ==
  IF \A key \in RequiredMeta : MetaByKey(doc, key) # <<>>
  THEN Check(Num(100), "All important meta tags present", <<>>)
  ELSE Check(Num(70), "Missing some important meta tags",
             <<"Add missing meta tags for better social sharing">>)

ServerMobile(doc) ==
  IF /\ MetaByName(doc, "viewport") # <<>>
     /\ \/ SelectSeq(doc, LAMBDA el : el.tag = "link" /\ el.rel = "amphtml") # <<>>
        \/ MetaByName(doc, "format-detection") # <<>>
  THEN Check(Num(100), "Page is mobile-friendly", <<>>)
  ELSE Check(Num(60), "Improve mobile optimization", <<"Enhance mobile responsiveness">>)

\* the checks object at the end of analyzeSEO
ServerChecks(doc) ==
  [title |-> ServerTitle(TitleText(doc)),
   description |-> ServerDescription(ContentAttr(MetaByName(doc, "description"))),
   headings |->
     ServerHeadings(Len(SelectSeq(doc, LAMBDA el : el.tag = "h" /\ el.level = 1)),
                    LevelsOf(SelectSeq(doc, LAMBDA el : el.tag = "h" /\ el.level > 1))),
   images |-> ServerImages(Select(doc, "img")),
   links |-> ServerLinks(Select(doc, "a")),
   meta |-> ServerMeta(doc),
   performance |-> Unset,
   readability |-> Unset,
   keywords |-> Unset,
   mobile |-> ServerMobile(doc)]

\* the sum of the scores of the first n checks
RECURSIVE SumScores(_, _)
SumScores(checks, n) ==
  IF n = 0 THEN Num(0) ELSE Plus(SumScores(checks, n - 1), checks[CheckNames[n]].score)

\* Object.values(checks).reduce(...) / Object.keys(checks).length
TotalScore(checks) == Over(SumScores(checks, Len(CheckNames)), Num(Len(CheckNames)))

\* the checks as returned: score and message
ChecksOf(checks) ==
  [name \in DOMAIN checks |->
     [score |-> checks[name].score, message |-> checks[name].message]]

\* the recommendations in the order the branches push them
Pushed(checks) ==
  checks.title.push \o checks.description.push \o checks.headings.push
    \o checks.images.push \o checks.links.push \o checks.meta.push
    \o checks.mobile.push

SeoOf(checks, recommendations) ==
  [score |-> Round(TotalScore(checks)),
   checks |-> ChecksOf(checks),
   recommendations |-> recommendations]

ServerSeo(checks) == SeoOf(checks, Pushed(checks))

analyzeSEO(doc) == ServerSeo(ServerChecks(doc))

----------------------------------------------------------------------------
(* calculateSEOScore of the dashboard store, on a record of the route. *)

ClientTitle(title) ==
  IF Len(title) >= 30 /\ Len(title) <= 60
  THEN Check(Num(100), "Title length is optimal", <<>>)
  ELSE Check(Num(50), "Title length should be between 30-60 characters", <<>>)

\* data.description?.length >= 120 && data.description?.length <= 160
ClientDescription(description) ==
  IF description.has /\ Len(description.val) >= 120 /\ Len(description.val) <= 160
  THEN Check(Num(100), "Description length is optimal", <<>>)
  ELSE Check(Num(50), "Description length should be between 120-160 characters", <<>>)

\* hasH1 && headingsHierarchy
ClientHeadings(headings) ==
  IF /\ \E i \in 1..Len(headings) : headings[i].level = 1
     /\ \A i \in 1..Len(headings) : i = 1 \/ headings[i].level >= headings[i - 1].level
  THEN Check(Num(100), "Heading structure is optimal", <<>>)
  ELSE Check(Num(60), "Improve heading hierarchy", <<>>)

ClientImagesOf(imageScore) ==
  Check(imageScore,
        IF imageScore = Num(100) THEN "All images have alt text"
        ELSE "Some images missing alt text",
        <<>>)

ClientImages(images) ==
  ClientImagesOf(ImageScore(Len(SelectSeq(images, LAMBDA img : img.alt # <<>>)),
                            Len(images)))

ClientLinks(links) ==
  IF /\ SelectSeq(links, LAMBDA l : ~l.isExternal) # <<>>
     /\ SelectSeq(links, LAMBDA l : l.isExternal) # <<>>
  THEN Check(Num(100), "Good mix of internal and external links", <<>>)
  ELSE Check(Num(70), "Consider adding more diverse links", <<>>)

\* data.content.meta && Object.keys(data.content.meta).length > 0
ClientMeta(meta) ==
  IF DOMAIN meta # {}
  THEN Check(Num(100), "Meta tags are well-defined", <<>>)
  ELSE Check(Num(50), "Add more meta tags", <<>>)

\* Math.min(100, 100 - (data.performance.loadTime / 1000))
PerformanceScore(score) == IF Less(Num(100), score) THEN Num(100) ELSE score

ClientPerformanceOf(performanceScore) ==
  Check(performanceScore,
        IF LessEq(Num(90), performanceScore) THEN "Performance is excellent"
        ELSE "Performance needs improvement",
        <<>>)

ClientPerformance(loadTime) ==
  ClientPerformanceOf(PerformanceScore(Minus(Num(100), Quot(loadTime, 1000))))

ClientReadability(readabilityScore) ==
  Check(readabilityScore,
        IF LessEq(Num(60), readabilityScore) THEN "Content is readable"
        ELSE "Improve content readability",
        <<>>)

ClientKeywords(topKeywords) ==
  IF Len(topKeywords) > 0
  THEN Check(Num(100), "Keywords are well distributed", <<>>)
  ELSE Check(Num(50), "Add more relevant keywords", <<>>)

\* data.content.meta.viewport !== undefined
ClientMobile(viewport) ==
  IF viewport.has
  THEN Check(Num(100), "Page is mobile-friendly", <<>>)
  ELSE Check(Num(50), "Optimize for mobile devices", <<>>)

ClientChecks(record) ==
  [title |-> ClientTitle(record.title),
   description |-> ClientDescription(record.description),
   headings |-> ClientHeadings(record.content.headings),
   images |-> ClientImages(record.content.images),
   links |-> ClientLinks(record.content.links),
   meta |-> ClientMeta(record.content.meta),
   performance |-> ClientPerformance(record.performance.loadTime),
   readability |-> ClientReadability(record.contentAnalysis.readabilityScore),
   keywords |-> ClientKeywords(record.contentAnalysis.topKeywords),
   mobile |-> ClientMobile(record.content.meta.viewport)]

\* Object.entries(checks).filter(([_, check]) => check.score < 100)
BelowFull(checks) == SelectSeq(CheckNames, LAMBDA name : Less(checks[name].score, Num(100)))

\* .map(([category, check]) => check.message)
MessagesOf(checks, names) == [i \in 1..Len(names) |-> checks[names[i]].message]

ClientSeo(checks) == SeoOf(checks, MessagesOf(checks, BelowFull(checks)))

calculateSEOScore(record) == ClientSeo(ClientChecks(record))

----------------------------------------------------------------------------
(* The inputs the model draws from. *)

\* the fetched page URLs (validUrl) the extractor is given as base
BaseHttps == <<"http", "s", ":", "/", "/", "a.com", "/", "dir", "/", "page">>
BaseHttp == <<"http", ":", "/", "/", "a.com", "/">>
BaseNoPath == <<"http", "s", ":", "/", "/", "a.com">>
BaseUrls == {BaseHttps, BaseHttp, BaseNoPath}

\* the src and href values of the documents
UrlEmpty == <<>>
UrlAbsImage == <<"http", "s", ":", "/", "/", "a.com", "/", "x", ".png">>
UrlAbsOther == <<"http", ":", "/", "/", "b.com", "/", "y", ".pdf">>
UrlAbsBare == <<"http", "s", ":", "/", "/", "b.com">>
UrlRefQuery == <<"http", "s", ":", "/", "/", "b.com", "/", "?", "ref", "=", "a.com">>
UrlSubdomain == <<"http", "s", ":", "/", "/", "sub.", "a.com", "/">>
UrlImageQuery == <<"http", "s", ":", "/", "/", "b.com", "/", "x", ".png", "?", "v", "#", "f">>
UrlProtoRel == <<"/", "/", "b.com", "/", "x", ".png">>
UrlRootRel == <<"/", "x", ".png">>
UrlRelative == <<"x", ".PNG">>
UrlDotDot == <<"..", "/", "up", ".gif">>
UrlDataImage == <<"data", ":", "image", "/", "png", ";", "base64">>
UrlDataText == <<"data", ":", "text", "/", "plain">>
UrlMailto == <<"mailto", ":", "me", "@", "a.com">>
UrlFtp == <<"ftp", ":", "/", "/", "b.com">>
UrlUpper == <<"HTTP", ":", "/", "/", "B.COM", "/", "x", ".png">>
UrlBadHttp == <<"http", ":", "/", "/", "[">>
UrlBadFtp == <<"ftp", ":", "/", "/", "[">>

RawUrls ==
  {UrlEmpty, UrlAbsImage, UrlAbsOther, UrlAbsBare, UrlRefQuery, UrlSubdomain,
   UrlImageQuery, UrlProtoRel, UrlRootRel, UrlRelative, UrlDotDot, UrlDataImage,
   UrlDataText, UrlMailto, UrlFtp, UrlUpper, UrlBadHttp, UrlBadFtp}

\* the attribute values: absent, or one of the strings
AttrValues == {NoAttr} \cup {Attr(u) : u \in RawUrls}

\* the elements of the documents
Elements ==
  {ImgEl(a, Attr(<<"x">>)) : a \in AttrValues} \cup {AEl(a) : a \in AttrValues}

\* the number of elements of a document
MaxElems == 2

Docs == UNION {[1..n -> Elements] : n \in 0..MaxElems}

\* the blocks the body texts are made of: words, numerals, white space and a
\* full stop
WordGood == <<"g", "o", "o", "d">>
WordGoodCapital == <<"G", "o", "o", "d">>
WordBad == <<"b", "a", "d">>
WordWord == <<"w", "o", "r", "d">>
WordRetarget == <<"r", "e", "t", "a", "r", "g", "e", "t">>
Numeral2024 == <<"2", "0", "2", "4">>
Numeral1999 == <<"1", "9", "9", "9">>
Space == <<" ">>
NewLine == <<"\n">>
FullStop == <<".">>

TextBlocks ==
  {WordGood, WordGoodCapital, WordBad, WordWord, WordRetarget, Numeral2024,
   Numeral1999, Space, NewLine, FullStop}

\* the number of blocks of a body text
MaxBlocks == 3

\* the blocks of a sequence, concatenated
RECURSIVE Concat(_)
Concat(blocks) == IF blocks = <<>> THEN <<>> ELSE blocks[1] \o Concat(Tail(blocks))

\* 'good good bad'
TextGoodGoodBad == Concat(<<WordGood, Space, WordGood, Space, WordBad>>)

\* 'good word'
TextGoodWord == Concat(<<WordGood, Space, WordWord>>)

\* a body of 250 one-letter words
Text250Words == [i \in 1..499 |-> IF i % 2 = 1 THEN "a" ELSE " "]

\* twelve keywords, eleven of them distinct: 'aaaa bbbb ... yyyy yyyy'
KeywordLetters == <<"a", "b", "d", "e", "g", "o", "r", "t", "w", "x", "y", "y">>
TextManyKeywords ==
  Concat([i \in 1..Len(KeywordLetters) |->
            [j \in 1..5 |-> IF j = 5 THEN " " ELSE KeywordLetters[i]]])

SampleTexts == {TextGoodGoodBad, Text250Words, TextManyKeywords}

\* the body texts: $('body').text() before it is trimmed
Texts ==
  {Concat(blocks) : blocks \in UNION {[1..n -> TextBlocks] : n \in 0..MaxBlocks}}
    \cup SampleTexts

----------------------------------------------------------------------------
(* The POST handler.  A request runs from one await to the next in one     *)
(* step: Start (up to await req.json()), Body (up to await axios.get),     *)
(* FetchOk / FetchFail (up to await insert, or to the response), and the   *)
(* three ways the insert can end.                                          *)

\* the number of requests in flight
NumReq == 2

Requests == 1..NumReq

\* the values of Date.now() - startTime the model draws, in milliseconds
LoadTimes == {0, 250}

\* the url property of the request bodies
ReqUrls == {BaseHttps, <<"a.com">>, <<"[">>, <<"http", "bin.org">>}

\* the request bodies: not JSON, { url: 5 }, {}, { url: '' }, { url: <string> }
Bodies ==
  {[kind |-> "malformed", url |-> NoAttr], [kind |-> "nonstring", url |-> NoAttr],
   [kind |-> "object", url |-> NoAttr]}
    \cup {[kind |-> "object", url |-> Attr(u)] : u \in {<<>>} \cup ReqUrls}

NoBody == [kind |-> "none", url |-> NoAttr]

\* the documents the fetched pages parse to
HandlerDocs ==
  {<<ImgEl(Attr(UrlRootRel), NoAttr), AEl(Attr(UrlRefQuery)), TextEl(TextGoodWord)>>,
   <<AEl(Attr(UrlBadFtp)), ImgEl(Attr(UrlDataText), NoAttr), AEl(NoAttr)>>}

\* the messages of the errors axios.get rejects with
FetchErrors == {"timeout of 10000ms exceeded", "Request failed with status code 404"}

\* what the fetch of a request came back with: the page and the Date.now() -
\* startTime read after it, or the error axios.get rejected with
NoFetch == [kind |-> "none", doc |-> <<>>, elapsed |-> 0, message |-> ""]
Fetched(doc, elapsed) == [kind |-> "ok", doc |-> doc, elapsed |-> elapsed, message |-> ""]
FetchFailed(m) == [kind |-> "fail", doc |-> <<>>, elapsed |-> 0, message |-> m]

NoContent == [images |-> <<>>, links |-> <<>>, headings |-> <<>>]

\* no metrics and no analysis yet
NoMetrics == [none |-> TRUE]
NoSeo == [none |-> TRUE]

NoData ==
  [url |-> <<>>, content |-> NoContent,
   performance |-> [loadTime |-> 0, resourceCount |-> 0]]

NoResponse ==
  [sent |-> FALSE, status |-> 0, success |-> FALSE, error |-> "",
   hasData |-> FALSE, data |-> NoData, hasSaved |-> FALSE, savedToDatabase |-> FALSE]

\* initSupabase without the check of the environment variables
initSupabase_NoCheck(configured) == TRUE

\* initSupabase() inside its try/catch: the client, or undefined when it throws
initSupabase(configured) == configured

\* !url
UrlMissing_OnlyUndefined(url) == ~url.has

UrlMissing(url) == ~url.has \/ url.val = <<>>

\* url.startsWith('http') ? url : `https://${url}`
ValidUrl(url) ==
  IF StartsWith(url, <<"http">>) THEN url ELSE <<"http", "s", ":", "/", "/">> \o url

\* error instanceof Error ? error.message : 'Failed to scrape website'
ErrorMessage_Generic(message) == "Failed to scrape website"

ErrorMessage(message) == message

\* NextResponse.json({ success: false, error }, { status })
ErrorResponse(status, message) ==
  [sent |-> TRUE, status |-> status, success |-> FALSE, error |-> message,
   hasData |-> FALSE, data |-> NoData, hasSaved |-> FALSE, savedToDatabase |-> FALSE]

\* !!supabase
SavedToDatabase(client) == client

\* NextResponse.json({ success: true, data, savedToDatabase: !!supabase })
SuccessResponse(record, client) ==
  [sent |-> TRUE, status |-> 200, success |-> TRUE, error |-> "",
   hasData |-> TRUE, data |-> record, hasSaved |-> TRUE,
   savedToDatabase |-> SavedToDatabase(client)]

\* fullText.split(/\s+/).length
WordCount(fullText) == Len(SplitOn(fullText, Whitespace))

\* Math.round(seoAnalysis.score) || 0
SeoScore(score) == Round(Num(score))

\* the content object: the structured content and the metrics of the text
ContentOf(structuredContent, fullText, meta) ==
  [fullText |-> fullText,
   meta |-> meta,
   images |-> structuredContent.images,
   links |-> structuredContent.links,
   headings |-> structuredContent.headings,
   readingTime |-> calculateReadingTime(fullText),
   wordCount |-> WordCount(fullText),
   sentiment |-> analyzeSentiment(fullText)]

\* contentAnalysis: the keywords and the readability score
ContentAnalysisOf(fullText) ==
  [topKeywords |-> analyzeKeywords(fullText).topKeywords,
   readabilityScore |-> calculateReadabilityScore(fullText)]

\* the record assembled from the structured content, the text metrics and the
\* SEO analysis
Assemble(fetchedUrl, structuredContent, loadTime, fullText, meta, seoAnalysis) ==
  [url |-> fetchedUrl,
   title |-> meta.title,
   description |-> meta.description,
   content |-> ContentOf(structuredContent, fullText, meta),
   performance |->
     [loadTime |-> loadTime,
      resourceCount |-> Len(structuredContent.images) + Len(structuredContent.links)],
   contentAnalysis |-> ContentAnalysisOf(fullText),
   seoAnalysis |->
     [score |-> SeoScore(seoAnalysis.score),
      checks |-> seoAnalysis.checks,
      recommendations |-> seoAnalysis.recommendations]]

\* the steps of POST up to axios.get: the response where one of them ends the
\* request (req.json() throws, !url, url.startsWith throws), NoResponse otherwise
BodyOutcome(b) ==
  IF b.kind = "malformed"
  THEN ErrorResponse(500, ErrorMessage("Unexpected end of JSON input"))
  ELSE IF b.kind = "object" /\ UrlMissing(b.url)
  THEN ErrorResponse(400, "URL is required")
  ELSE IF b.kind = "nonstring"
  THEN ErrorResponse(500, ErrorMessage("url.startsWith is not a function"))
  ELSE NoResponse

\* the record the handler computes from the fetched document
Analyse(fetchedUrl, doc, loadTime) ==
  Assemble(fetchedUrl, extractStructuredContent(doc, fetchedUrl), loadTime,
           Trim(BodyText(doc)), extractMetaTags(doc), analyzeSEO(doc))

\* the records of the model's requests, computed once: for each fetched URL,
\* document and load time the record Analyse gives
Analysed ==
  [fetchedUrl \in {ValidUrl(u) : u \in ReqUrls} |->
     [doc \in HandlerDocs |-> [loadTime \in LoadTimes |-> Analyse(fetchedUrl, doc, loadTime)]]]

\* the row handed to supabase.from('scraped_pages').insert
Row(record) ==
  [url |-> record.url, title |-> record.title, description |-> record.description,
   content |-> record.content, performance_metrics |-> record.performance,
   content_analysis |-> record.contentAnalysis, seo_score |-> record.seoAnalysis.score,
   readability_score |-> record.contentAnalysis.readabilityScore]

\* the activation a request's local bindings (supabase, validUrl, html, the
\* assembled record) live in: its own
ScopeOf_ModuleLevel(r) == 1

ScopeOf(r) == r

\* whether the handler suspends until the insert has settled
AwaitsInsert_FireAndForget(client) == FALSE

AwaitsInsert(client) == client

\* the extractor's inputs and results (see the end of the module)
VARIABLES xBase, xDoc, xNorm, xContent, xPc

xvars == <<xBase, xDoc, xNorm, xContent, xPc>>

\* the text metrics applied to a body text
VARIABLES tText, tOut, tPc

tvars == <<tText, tOut, tPc>>

\* the two SEO analyses applied to a page and its load time
VARIABLES sDoc, sLoad, sOut, sPc

svars == <<sDoc, sLoad, sOut, sPc>>

\* the dashboard store and the calls that run on it
VARIABLES
  store,            \* the state of useScraperStore
  clientSupabase,   \* the browser environment holds both Supabase variables
  scrapes,          \* the calls of scrapeUrl: where each stands, what it received
  calls,            \* the number of calls of scrapeUrl made so far
  mount             \* the loadSavedPages call of the component's effect

cvars == <<store, clientSupabase, scrapes, calls, mount>>

VARIABLES
  sbConfigured,   \* the process environment holds both Supabase variables
  pc,             \* where each request stands
  body,           \* the body each request came with
  fetched,        \* what each request's fetch came back with
  supabase,       \* the local supabase of each activation
  validUrl,       \* the local validUrl of each activation
  data,           \* the record of each activation
  insertState,    \* the insert of each request: none, pending, ok, error, threw
  resp,           \* the response of each request
  fetchLog,       \* the calls of axios.get
  insertLog,      \* the calls of insert
  table           \* the rows of scraped_pages

hvars ==
  <<sbConfigured, pc, body, fetched, supabase, validUrl, data, insertState, resp,
    fetchLog, insertLog, table>>

vars == <<hvars, xvars, tvars, svars, cvars>>

\* no request has arrived
HIdle ==
  /\ pc = [r \in Requests |-> "new"]
  /\ body = [r \in Requests |-> NoBody]
  /\ fetched = [r \in Requests |-> NoFetch]
  /\ supabase = [r \in Requests |-> FALSE]
  /\ validUrl = [r \in Requests |-> <<>>]
  /\ data = [r \in Requests |-> NoData]
  /\ insertState = [r \in Requests |-> "none"]
  /\ resp = [r \in Requests |-> NoResponse]
  /\ fetchLog = {}
  /\ insertLog = {}
  /\ table = {}

\* POST is entered: startTime, initSupabase(), and req.json() is awaited
Start(r) ==
  /\ pc[r] = "new"
  /\ supabase' = [supabase EXCEPT ![ScopeOf(r)] = initSupabase(sbConfigured)]
  /\ pc' = [pc EXCEPT ![r] = "json"]
  /\ UNCHANGED <<sbConfigured, body, fetched, validUrl, data, insertState, resp,
                 fetchLog, insertLog, table>>
  /\ UNCHANGED <<xvars, tvars, svars, cvars>>

\* req.json() settles: the url is validated and axios.get is called
Body(r, b) ==
  /\ pc[r] = "json"
  /\ body' = [body EXCEPT ![r] = b]
  /\ IF BodyOutcome(b).sent
     THEN /\ resp' = [resp EXCEPT ![r] = BodyOutcome(b)]
          /\ pc' = [pc EXCEPT ![r] = "done"]
          /\ UNCHANGED <<validUrl, fetchLog>>
     ELSE /\ validUrl' = [validUrl EXCEPT ![ScopeOf(r)] = ValidUrl(OrEmpty(b.url))]
          /\ fetchLog' = fetchLog \cup {[req |-> r, url |-> ValidUrl(OrEmpty(b.url))]}
          /\ pc' = [pc EXCEPT ![r] = "fetch"]
          /\ UNCHANGED resp
  /\ UNCHANGED <<sbConfigured, fetched, supabase, data, insertState, insertLog, table>>
  /\ UNCHANGED <<xvars, tvars, svars, cvars>>

\* axios.get resolves: the page is analysed; with a client the row is handed
\* to insert, without one the response is sent
FetchOk(r, doc, loadTime) ==
  /\ pc[r] = "fetch"
  /\ \E f \in fetchLog : f.req = r /\ NewUrl(f.url).ok
  /\ fetched' = [fetched EXCEPT ![r] = Fetched(doc, loadTime)]
  /\ data' = [data EXCEPT ![ScopeOf(r)] = Analysed[validUrl[ScopeOf(r)]][doc][loadTime]]
  /\ IF supabase[ScopeOf(r)]
     THEN /\ insertLog' = insertLog \cup {[req |-> r, row |-> Row(data'[ScopeOf(r)])]}
          /\ insertState' = [insertState EXCEPT ![r] = "pending"]
     ELSE UNCHANGED <<insertLog, insertState>>
  /\ IF AwaitsInsert(supabase[ScopeOf(r)])
     THEN /\ pc' = [pc EXCEPT ![r] = "insert"]
          /\ UNCHANGED resp
     ELSE /\ pc' = [pc EXCEPT ![r] = "done"]
          /\ resp' = [resp EXCEPT ![r] =
                        SuccessResponse(data'[ScopeOf(r)], supabase[ScopeOf(r)])]
  /\ UNCHANGED <<sbConfigured, body, supabase, validUrl, fetchLog, table>>
  /\ UNCHANGED <<xvars, tvars, svars, cvars>>

\* axios.get rejects: the outer catch answers with the error's message
FetchFail(r, m) ==
  /\ pc[r] = "fetch"
  /\ fetched' = [fetched EXCEPT ![r] = FetchFailed(m)]
  /\ resp' = [resp EXCEPT ![r] = ErrorResponse(500, ErrorMessage(m))]
  /\ pc' = [pc EXCEPT ![r] = "done"]
  /\ UNCHANGED <<sbConfigured, body, supabase, validUrl, data, insertState,
                 fetchLog, insertLog, table>>
  /\ UNCHANGED <<xvars, tvars, svars, cvars>>

\* the insert has settled and the handler returns nothing
Respond_NoReturn(r) ==
  /\ resp' = resp
  /\ pc' = [pc EXCEPT ![r] = "done"]

\* the response after the insert has settled
Respond(r) ==
  /\ resp' = [resp EXCEPT ![r] = SuccessResponse(data[ScopeOf(r)], supabase[ScopeOf(r)])]
  /\ pc' = [pc EXCEPT ![r] = "done"]

\* the insert resolves without error: the row is stored
InsertOk(r) ==
  /\ pc[r] = "insert"
  /\ insertState' = [insertState EXCEPT ![r] = "ok"]
  /\ table' = table \cup {i \in insertLog : i.req = r}
  /\ Respond(r)
  /\ UNCHANGED <<sbConfigured, body, fetched, supabase, validUrl, data,
                 fetchLog, insertLog>>
  /\ UNCHANGED <<xvars, tvars, svars, cvars>>

\* the insert resolves with { error }: it is logged
InsertError(r) ==
  /\ pc[r] = "insert"
  /\ insertState' = [insertState EXCEPT ![r] = "error"]
  /\ Respond(r)
  /\ UNCHANGED <<sbConfigured, body, fetched, supabase, validUrl, data,
                 fetchLog, insertLog, table>>
  /\ UNCHANGED <<xvars, tvars, svars, cvars>>

\* the insert throws: the inner catch logs it
InsertThrow(r) ==
  /\ pc[r] = "insert"
  /\ insertState' = [insertState EXCEPT ![r] = "threw"]
  /\ Respond(r)
  /\ UNCHANGED <<sbConfigured, body, fetched, supabase, validUrl, data,
                 fetchLog, insertLog, table>>
  /\ UNCHANGED <<xvars, tvars, svars, cvars>>

\* the extractor's variables while the handler runs
XIdle ==
  /\ xBase = BaseHttps
  /\ xDoc = <<>>
  /\ xNorm = <<>>
  /\ xContent = NoContent
  /\ xPc = "input"

\* no text is being measured
TIdle ==
  /\ tText = <<>>
  /\ tOut = NoMetrics
  /\ tPc = "input"

\* no page is being scored
SIdle ==
  /\ sDoc = <<>>
  /\ sLoad = 0
  /\ sOut = NoSeo
  /\ sPc = "input"

\* the number of calls of scrapeUrl
NumScrapes == 2

Scrapes == 1..NumScrapes

\* null where the store holds an object or null
NullRecord == [null |-> TRUE]

\* the initial state of useScraperStore
InitialStore ==
  [url |-> <<>>, loading |-> FALSE, error |-> Null, scrapedData |-> NullRecord,
   savedPages |-> <<>>, stats |-> NullRecord, seoAnalysis |-> NullRecord,
   searchTerm |-> <<>>, selectedTimeframe |-> "all"]

\* a call of scrapeUrl that was not made yet
NoCall == [pc |-> "idle", during |-> {}, sent |-> <<>>, result |-> NoResponse]

\* the dashboard is not open
CIdle ==
  /\ store = InitialStore
  /\ clientSupabase = FALSE
  /\ scrapes = [i \in Scrapes |-> NoCall]
  /\ calls = 0
  /\ mount = "unmounted"

Init ==
  /\ sbConfigured \in BOOLEAN
  /\ HIdle
  /\ XIdle
  /\ TIdle
  /\ SIdle
  /\ CIdle

Next ==
  \E r \in Requests :
    \/ Start(r)
    \/ \E b \in Bodies : Body(r, b)
    \/ \E doc \in HandlerDocs, loadTime \in LoadTimes : FetchOk(r, doc, loadTime)
    \/ \E m \in FetchErrors : FetchFail(r, m)
    \/ InsertOk(r)
    \/ InsertError(r)
    \/ InsertThrow(r)

Spec == Init /\ [][Next]_vars

\* the promises a request awaits settle: req.json() on the body that came
\* with the request, axios.get within its timeout of 10000 ms, and the insert
BodySettles(r) == \E b \in Bodies : Body(r, b)

FetchSettles(r) ==
  \/ \E m \in FetchErrors : FetchFail(r, m)
  \/ \E doc \in HandlerDocs, loadTime \in LoadTimes : FetchOk(r, doc, loadTime)

InsertSettles(r) == InsertOk(r) \/ InsertError(r) \/ InsertThrow(r)

\* a request is at one await at a time: what it awaits settles
Settles(r) == InsertSettles(r) \/ BodySettles(r) \/ FetchSettles(r)

Settling == \A r \in Requests : WF_vars(Settles(r))

\* the handler with collaborators that settle
SpecLive == Init /\ [][Next]_vars /\ Settling

----------------------------------------------------------------------------
(* The extractor applied to a document: the inputs are drawn in the        *)
(* initial state, one step normalises every URL of the document and the    *)
(* next one extracts the structured content.                               *)

XInit ==
  /\ HIdle
  /\ sbConfigured = FALSE
  /\ TIdle
  /\ SIdle
  /\ CIdle
  /\ xBase \in BaseUrls
  /\ xDoc \in Docs
  /\ xNorm = <<>>
  /\ xContent = NoContent
  /\ xPc = "input"

\* normalizeUrl(baseUrl, $el.attr(..) || '') for every element
XNormalize ==
  /\ xPc = "input"
  /\ xNorm' = [i \in 1..Len(xDoc) |-> normalizeUrl(xBase, OrEmpty(xDoc[i].url))]
  /\ xPc' = "normalized"
  /\ UNCHANGED <<xBase, xDoc, xContent, hvars, tvars, svars, cvars>>

\* extractStructuredContent($, baseUrl)
XExtract ==
  /\ xPc = "normalized"
  /\ xContent' = extractStructuredContent(xDoc, xBase)
  /\ xPc' = "extracted"
  /\ UNCHANGED <<xBase, xDoc, xNorm, hvars, tvars, svars, cvars>>

XNext == XNormalize \/ XExtract

SpecExtract == XInit /\ [][XNext]_vars

----------------------------------------------------------------------------
(* The text metrics applied to a body text: the text is drawn in the       *)
(* initial state and one step applies a part of the analysis of POST.      *)

TInit ==
  /\ HIdle
  /\ sbConfigured = FALSE
  /\ XIdle
  /\ SIdle
  /\ CIdle
  /\ tText \in Texts
  /\ tOut = NoMetrics
  /\ tPc = "input"

\* fullText = $('body').text().trim() and the content object built from it
TContent ==
  /\ tPc = "input"
  /\ tOut' = ContentOf(NoContent, Trim(tText), extractMetaTags(<<>>))
  /\ tPc' = "content"
  /\ UNCHANGED <<tText, hvars, xvars, svars, cvars>>

\* calculateReadabilityScore(text)
TReadability ==
  /\ tPc = "input"
  /\ tOut' = calculateReadabilityScore(tText)
  /\ tPc' = "readability"
  /\ UNCHANGED <<tText, hvars, xvars, svars, cvars>>

\* analyzeKeywords(text)
TKeywords ==
  /\ tPc = "input"
  /\ tOut' = analyzeKeywords(tText)
  /\ tPc' = "keywords"
  /\ UNCHANGED <<tText, hvars, xvars, svars, cvars>>

\* analyzeSentiment(text)
TSentiment ==
  /\ tPc = "input"
  /\ tOut' = analyzeSentiment(tText)
  /\ tPc' = "sentiment"
  /\ UNCHANGED <<tText, hvars, xvars, svars, cvars>>

TNext == TContent \/ TReadability \/ TKeywords \/ TSentiment

SpecText == TInit /\ [][TNext]_vars

----------------------------------------------------------------------------
(* The two SEO analyses applied to a page: analyzeSEO of the route on the  *)
(* parsed document, calculateSEOScore of the store on the record the route *)
(* returns for it.                                                         *)

\* a text of n characters
Filler(n) == [i \in 1..n |-> "x"]

\* the elements of the pages
SeoElements ==
  {HEl(1), HEl(2), HEl(3),
   ImgEl(Attr(UrlAbsImage), Attr(<<"x">>)), ImgEl(Attr(UrlAbsImage), NoAttr),
   AEl(Attr(UrlRootRel)), AEl(Attr(UrlAbsBare)), AEl(NoAttr),
   TextEl(TextGoodWord)}

\* the number of elements of a page
MaxSeoElems == 3

\* a page on which every branch of analyzeSEO takes its first arm
PageComplete ==
  <<TitleEl(Filler(40)),
    MetaEl("name", "description", Attr(Filler(130))),
    MetaEl("name", "viewport", Attr(<<"x">>)),
    MetaEl("name", "robots", Attr(<<"x">>)),
    MetaEl("property", "og:title", Attr(<<"x">>)),
    MetaEl("property", "og:description", Attr(<<"x">>)),
    MetaEl("name", "twitter:card", Attr(<<"x">>)),
    LinkRelEl("amphtml"),
    HEl(1), HEl(2),
    ImgEl(Attr(UrlAbsImage), Attr(<<"x">>)),
    AEl(Attr(UrlRootRel)), AEl(Attr(UrlAbsBare)),
    TextEl(TextGoodWord)>>

\* pages with a title only: 'A Short Title', and a title of 29 characters
\* after a space
PageShortTitle == <<TitleEl(Filler(13))>>
PagePaddedTitle == <<TitleEl(<<" ">> \o Filler(29))>>

SeoDocs ==
  UNION {[1..n -> SeoElements] : n \in 0..MaxSeoElems}
    \cup {PageComplete, PageShortTitle, PagePaddedTitle}

\* the load times of the records, in milliseconds
SeoLoadTimes == {0, 250, 150000}

SInit ==
  /\ HIdle
  /\ sbConfigured = FALSE
  /\ XIdle
  /\ TIdle
  /\ CIdle
  /\ sDoc \in SeoDocs
  /\ sLoad \in SeoLoadTimes
  /\ sOut = NoSeo
  /\ sPc = "input"

\* analyzeSEO($, validUrl, meta)
SServer ==
  /\ sPc = "input"
  /\ sOut' = analyzeSEO(sDoc)
  /\ sPc' = "server"
  /\ UNCHANGED <<sDoc, sLoad, hvars, xvars, tvars, cvars>>

\* calculateSEOScore(validatedData) on the record of the page
SClient ==
  /\ sPc = "input"
  /\ sOut' = calculateSEOScore(Analyse(BaseHttps, sDoc, sLoad))
  /\ sPc' = "client"
  /\ UNCHANGED <<sDoc, sLoad, hvars, xvars, tvars, cvars>>

SNext == SServer \/ SClient

SpecSeo == SInit /\ [][SNext]_vars

----------------------------------------------------------------------------
(* The dashboard: useScraperStore and the component that renders it.  A    *)
(* call of scrapeUrl runs from one await to the next in one step: up to    *)
(* the await of fetch and response.json(), from the result up to the await *)
(* of the select of loadSavedPages (or to the end), and from the rows to   *)
(* the end.                                                                *)

\* result.error || 'Failed to scrape website', without the default
FailureMessage_NoDefault(result) == result.error

\* result.error || 'Failed to scrape website'
FailureMessage(result) ==
  IF result.error = "" THEN "Failed to scrape website" ELSE result.error

\* the keys of ScrapedDataSchema; description is optional and, like the
\* optional attributes, a field that may hold no value
SchemaKeys ==
  {"url", "title", "description", "content", "performance", "contentAnalysis",
   "seoAnalysis"}

\* ScrapedDataSchema.parse(data) throws a ZodError where a required key is
\* missing; otherwise it returns the keys of the schema and drops the others
Validates(received) == SchemaKeys \subseteq DOMAIN received
Parse(received) == [k \in SchemaKeys |-> received[k]]
ZodMessage == "Required"

\* Object.entries of the counts a reduce builds: the keys in the order of
\* their first occurrence, each with the number of its occurrences
CountEntries(keys, all) ==
  [i \in 1..Len(keys) |-> [key |-> keys[i], count |-> CountOf(all, keys[i])]]

\* link.isExternal ? 'external' : 'internal'
LinkTypesOf(links) ==
  [i \in 1..Len(links) |-> IF links[i].isExternal THEN "external" ELSE "internal"]

\* sectionElements > 0 ? sectionText / sectionElements : 0
Density(sectionText, sectionElements) ==
  IF sectionElements > 0 THEN Quot(sectionText, sectionElements) ELSE Num(0)

\* the stats object calculateStats sets
StatsOf(validatedData, levels, linkTypes, density) ==
  [wordCount |-> validatedData.content.wordCount,
   linkCount |-> Len(validatedData.content.links),
   imageCount |-> Len(validatedData.content.images),
   headingCount |-> Len(validatedData.content.headings),
   readingTime |-> validatedData.content.readingTime,
   headingChartData |-> CountEntries(Distinct(levels), levels),
   linkTypes |-> CountEntries(Distinct(linkTypes), linkTypes),
   contentDensity |->
     <<[section |-> "header", density |-> density],
       [section |-> "main", density |-> density],
       [section |-> "footer", density |-> density]>>,
   seoScore |-> validatedData.seoAnalysis.score,
   performance |-> validatedData.performance,
   contentAnalysis |-> validatedData.contentAnalysis]

calculateStats(validatedData) ==
  StatsOf(validatedData, LevelsOf(validatedData.content.headings), LinkTypesOf(validatedData.content.links),
          Density(Len(validatedData.content.fullText),
                  Len(validatedData.content.links) + Len(validatedData.content.images)))

\* analyzeSEO of the store: seoAnalysis is set and, where stats is set, its
\* seoScore
WithSeo(st, analysis) ==
  [st EXCEPT !.seoAnalysis = analysis,
             !.stats = IF @ = NullRecord THEN @ ELSE [@ EXCEPT !.seoScore = analysis.score]]

\* the store after the validated data is set and calculateStats and
\* analyzeSEO have run
Scraped(st, validatedData) ==
  WithSeo([st EXCEPT !.scrapedData = validatedData,
                     !.error = Null,
                     !.stats = calculateStats(validatedData)],
          calculateSEOScore(validatedData))

\* a value of a row of scraped_pages, with its typeof
Str(text) == [type |-> "string", val |-> text]
Number(n) == [type |-> "number", val |-> n]
Object(o) == [type |-> "object", val |-> o]

\* two rows of scraped_pages
SavedGood ==
  [id |-> Str(<<"1">>), url |-> Str(<<"a", ".", "g", "o">>), title |-> Str(WordGoodCapital),
   description |-> Object(NullRecord), seo_score |-> Number(70),
   content |-> Object([fullText |-> WordBad])]
SavedBad ==
  [id |-> Str(<<"2">>), url |-> Str(<<"b", ".", "b", "e">>), title |-> Str(<<"B", "a", "d">>),
   description |-> Str(WordWord), seo_score |-> Number(42),
   content |-> Object([fullText |-> WordGood])]

\* what the select of loadSavedPages settles with: an error, no data, rows
LoadOutcomes ==
  {[error |-> TRUE, data |-> <<>>], [error |-> FALSE, data |-> <<>>],
   [error |-> FALSE, data |-> <<SavedGood, SavedBad>>]}

\* the store after the select has settled: if (error) throw error, and
\* set({ savedPages: data || [] })
Loaded(st, outcome) ==
  IF outcome.error THEN [st EXCEPT !.error = "Failed to load saved pages"]
  ELSE [st EXCEPT !.savedPages = outcome.data]

\* the callback of savedPages.filter with case-sensitive includes
Matches_CaseSensitive(page, searchTerm) ==
  \E k \in DOMAIN page : page[k].type = "string" /\ Includes(page[k].val, searchTerm)

\* the callback of savedPages.filter in the history list
Matches(page, searchTerm) ==
  \E k \in DOMAIN page :
    /\ page[k].type = "string"
    /\ Includes(TextToLowerCase(page[k].val), TextToLowerCase(searchTerm))

\* the cards of the history list
VisiblePages(savedPages, searchTerm) ==
  SelectSeq(savedPages, LAMBDA page : Matches(page, searchTerm))

\* the text typed into the URL input and into the search input
TypedUrls == {<<"a", ".", "g", "o">>}
SearchTerms == {<<>>, WordGood, <<"7", "0">>}

\* the records the responses carry: the record of a complete page, the
\* record of an empty page with a key the schema does not know, and a record
\* that lacks required keys
DataComplete == Analyse(BaseHttps, PageComplete, 250)
DataUnknownKey == Analyse(BaseHttps, <<>>, 0) @@ [cached |-> TRUE]
ResponseData == {DataComplete, DataUnknownKey, NoData}

\* the results of response.json(): what the route answers to the url sent
ResultsFor(sent) ==
  IF sent = <<>> THEN {ErrorResponse(400, "URL is required")}
  ELSE {ErrorResponse(500, "timeout of 10000ms exceeded"), ErrorResponse(500, "")}
         \cup {SuccessResponse(d, FALSE) : d \in ResponseData}

\* the calls of scrapeUrl that have not finished
Running == {j \in Scrapes : scrapes[j].pc \in {"fetch", "load"}}

CInit ==
  /\ HIdle
  /\ sbConfigured = FALSE
  /\ XIdle
  /\ TIdle
  /\ SIdle
  /\ store = InitialStore
  /\ clientSupabase \in BOOLEAN
  /\ scrapes = [i \in Scrapes |-> NoCall]
  /\ calls = 0
  /\ mount = "unmounted"

\* the component mounts: its effect calls loadSavedPages, which returns at
\* once without a client and awaits the select with one
Mount ==
  /\ mount = "unmounted"
  /\ IF clientSupabase
     THEN /\ mount' = "load"
          /\ UNCHANGED store
     ELSE /\ mount' = "done"
          /\ store' = [store EXCEPT !.error = "Supabase is not configured"]
  /\ UNCHANGED <<clientSupabase, scrapes, calls>>
  /\ UNCHANGED <<hvars, xvars, tvars, svars>>

\* the select of the effect's loadSavedPages settles
MountLoaded(outcome) ==
  /\ mount = "load"
  /\ store' = Loaded(store, outcome)
  /\ mount' = "done"
  /\ UNCHANGED <<clientSupabase, scrapes, calls>>
  /\ UNCHANGED <<hvars, xvars, tvars, svars>>

\* setUrl, from the URL input
SetUrl(typed) ==
  /\ mount # "unmounted"
  /\ store' = [store EXCEPT !.url = typed]
  /\ UNCHANGED <<clientSupabase, scrapes, calls, mount>>
  /\ UNCHANGED <<hvars, xvars, tvars, svars>>

\* setSearchTerm, from the search input
SetSearchTerm(term) ==
  /\ mount # "unmounted"
  /\ store' = [store EXCEPT !.searchTerm = term]
  /\ UNCHANGED <<clientSupabase, scrapes, calls, mount>>
  /\ UNCHANGED <<hvars, xvars, tvars, svars>>

\* scrapeUrl up to its first await: loading is set, the error cleared and the
\* request sent with the url of the store
Begin(i, st) ==
  /\ store' = [st EXCEPT !.loading = TRUE, !.error = Null]
  /\ scrapes' = [scrapes EXCEPT ![i] =
                   [pc |-> "fetch", during |-> Running, sent |-> st.url,
                    result |-> NoResponse]]
  /\ calls' = i

\* a click on 'Scrape Website', which is disabled while loading
ScrapeClick ==
  /\ mount # "unmounted"
  /\ calls < NumScrapes
  /\ ~store.loading
  /\ Begin(calls + 1, store)
  /\ UNCHANGED <<clientSupabase, mount>>
  /\ UNCHANGED <<hvars, xvars, tvars, svars>>

\* a click on the re-scrape button of a card of the history list:
\* setUrl(page.url); scrapeUrl()
Rescrape(n) ==
  /\ mount # "unmounted"
  /\ calls < NumScrapes
  /\ n \in 1..Len(VisiblePages(store.savedPages, store.searchTerm))
  /\ Begin(calls + 1,
           [store EXCEPT !.url = VisiblePages(store.savedPages, store.searchTerm)[n].url.val])
  /\ UNCHANGED <<clientSupabase, mount>>
  /\ UNCHANGED <<hvars, xvars, tvars, svars>>

\* call i ends: the catch block and the finally block have run
Finish(i, result, st) ==
  /\ store' = [st EXCEPT !.loading = FALSE]
  /\ scrapes' = [scrapes EXCEPT ![i].pc = "done", ![i].result = result]

\* response.json() resolves: a failure is thrown to the catch block, the data
\* is validated, set and analysed, and loadSavedPages is called
Received(i, result) ==
  /\ scrapes[i].pc = "fetch"
  /\ result \in ResultsFor(scrapes[i].sent)
  /\ IF ~result.success
     THEN Finish(i, result, [store EXCEPT !.error = FailureMessage(result)])
     ELSE IF ~Validates(result.data)
     THEN Finish(i, result, [store EXCEPT !.error = ZodMessage])
     ELSE IF ~clientSupabase
     THEN Finish(i, result,
                 [Scraped(store, Parse(result.data))
                    EXCEPT !.error = "Supabase is not configured"])
     ELSE /\ store' = Scraped(store, Parse(result.data))
          /\ scrapes' = [scrapes EXCEPT ![i].pc = "load", ![i].result = result]
  /\ UNCHANGED <<clientSupabase, calls, mount>>
  /\ UNCHANGED <<hvars, xvars, tvars, svars>>

\* fetch rejects: the catch block sets the message of the error
FetchRejected(i) ==
  /\ scrapes[i].pc = "fetch"
  /\ Finish(i, NoResponse, [store EXCEPT !.error = "Failed to fetch"])
  /\ UNCHANGED <<clientSupabase, calls, mount>>
  /\ UNCHANGED <<hvars, xvars, tvars, svars>>

\* the select of the call's loadSavedPages settles
LoadSettled(i, outcome) ==
  /\ scrapes[i].pc = "load"
  /\ Finish(i, scrapes[i].result, Loaded(store, outcome))
  /\ UNCHANGED <<clientSupabase, calls, mount>>
  /\ UNCHANGED <<hvars, xvars, tvars, svars>>

CNext ==
  \/ Mount
  \/ \E outcome \in LoadOutcomes : MountLoaded(outcome)
  \/ \E typed \in TypedUrls : SetUrl(typed)
  \/ \E term \in SearchTerms : SetSearchTerm(term)
  \/ ScrapeClick
  \/ \E n \in 1..2 : Rescrape(n)
  \/ \E i \in Scrapes : \E result \in ResultsFor(scrapes[i].sent) : Received(i, result)
  \/ \E i \in Scrapes : FetchRejected(i)
  \/ \E i \in Scrapes, outcome \in LoadOutcomes : LoadSettled(i, outcome)

SpecStore == CInit /\ [][CNext]_vars

----------------------------------------------------------------------------
(* The claims about the POST handler, checked under Spec. *)

\* the url a request's body carries, as the handler reads it
UrlOf(r) == OrEmpty(body[r].url)

\* the record a request yields from its own url, page and elapsed time
OwnData(r) == Analysed[ValidUrl(UrlOf(r))][fetched[r].doc][fetched[r].elapsed]

\* POST run on its own, from the body to the response
RunAlone(b, f, configured) ==
  IF BodyOutcome(b).sent THEN BodyOutcome(b)
  ELSE IF f.kind = "fail" THEN ErrorResponse(500, ErrorMessage(f.message))
  ELSE SuccessResponse(Analysed[ValidUrl(OrEmpty(b.url))][f.doc][f.elapsed],
                       initSupabase(configured))

Fetches(r) == {f \in fetchLog : f.req = r}
Inserts(r) == {i \in insertLog : i.req = r}

\* C1: a request whose url is empty or missing is answered with status 400,
\* success=false and the error 'URL is required', and neither a fetch nor an
\* insert is made for it.
C1_UrlRequired ==
  \A r \in Requests :
    (body[r].kind = "object" /\ (~body[r].url.has \/ body[r].url.val = <<>>))
      => /\ resp[r].sent
         /\ resp[r].status = 400
         /\ ~resp[r].success
         /\ resp[r].error = "URL is required"
         /\ ~resp[r].hasData
         /\ Fetches(r) = {}
         /\ Inserts(r) = {}

\* C1 witness: one request came without url, another with the empty url, and
\* both are answered
C1_Witness ==
  /\ body[1] = [kind |-> "object", url |-> NoAttr]
  /\ body[2] = [kind |-> "object", url |-> Attr(<<>>)]
  /\ resp[1].sent
  /\ resp[2].sent

\* C2: when the fetch fails the request ends with success=false and the
\* error's own message, no data is returned and no insert is attempted.
C2_FetchFailure ==
  \A r \in Requests :
    fetched[r].kind = "fail"
      => /\ resp[r].sent
         /\ ~resp[r].success
         /\ resp[r].error = fetched[r].message
         /\ ~resp[r].hasData
         /\ resp[r].data = NoData
         /\ Inserts(r) = {}

\* C2 witness: a fetch timed out, with a backend configured
C2_Witness ==
  /\ sbConfigured
  /\ fetched[1] = FetchFailed("timeout of 10000ms exceeded")
  /\ resp[1].sent

\* C3: when the backend is configured and the insert fails, the response is
\* success=true with the same data as after a successful insert, and
\* savedToDatabase is false.
C3_InsertFailureReflected ==
  \A r \in Requests :
    (insertState[r] \in {"error", "threw"} /\ resp[r].sent)
      => /\ resp[r].success
         /\ resp[r].hasData
         /\ resp[r].data = OwnData(r)
         /\ resp[r].hasSaved
         /\ resp[r].savedToDatabase = FALSE

\* C4: without a configured backend a request whose fetch succeeds is answered
\* success=true with the full record, no insert is attempted and
\* savedToDatabase is false.
C4_NoBackend ==
  \A r \in Requests :
    (~sbConfigured /\ fetched[r].kind = "ok")
      => /\ resp[r].sent
         /\ resp[r].success
         /\ resp[r].hasData
         /\ resp[r].data = OwnData(r)
         /\ resp[r].hasSaved
         /\ resp[r].savedToDatabase = FALSE
         /\ Inserts(r) = {}
         /\ insertState[r] = "none"

\* C4 witness: no backend, and a page with a kept image and a kept link was
\* fetched and answered
C4_Witness ==
  /\ ~sbConfigured
  /\ fetched[1].kind = "ok"
  /\ resp[1].sent
  /\ Len(resp[1].data.content.images) = 1
  /\ Len(resp[1].data.content.links) = 1

C6_Independent ==
  /\ \A r \in Requests :
       resp[r].sent => resp[r] = RunAlone(body[r], fetched[r], sbConfigured)
  /\ \A r \in Requests :
       \A i \in Inserts(r) : i = [req |-> r, row |-> Row(OwnData(r))]
  /\ \A r \in Requests :
       pc[r] \in {"fetch", "insert"} \/ fetched[r].kind # "none"
         => Fetches(r) = {[req |-> r, url |-> ValidUrl(UrlOf(r))]}
  /\ \A r \in Requests :
       body[r].kind # "none" /\ BodyOutcome(body[r]).sent => Fetches(r) = {}

\* C6 witness: two requests for different urls that fetched different pages
\* wait for their inserts at the same time
C6_Witness ==
  /\ pc[1] = "insert" /\ pc[2] = "insert"
  /\ validUrl[1] # validUrl[2]
  /\ fetched[1].doc # fetched[2].doc
  /\ Inserts(1) # {} /\ Inserts(2) # {}

\* C15: in the seoAnalysis of every record returned by a successful request
\* the keywords check scores 100 when at least one top keyword was extracted
\* from the page text and 50 otherwise, and never anything else.
C15_KeywordsCheck ==
  \A r \in Requests :
    (resp[r].sent /\ resp[r].success)
      => resp[r].data.seoAnalysis.checks.keywords.score
           = IF Len(resp[r].data.contentAnalysis.topKeywords) > 0
             THEN Num(100) ELSE Num(50)

\* the url with 'https://' in front of it where it has no scheme
WithDefaultScheme(url) ==
  IF SchemeEnd(url) > 0 THEN url ELSE <<"http", "s", ":", "/", "/">> \o url

\* C20: the URL that is fetched and reported as the record's url is the input
\* url unchanged when the input has a scheme, and 'https://' followed by the
\* input when it has none.
C20_DefaultScheme ==
  \A r \in Requests :
    /\ \A f \in Fetches(r) : f.url = WithDefaultScheme(UrlOf(r))
    /\ (resp[r].sent /\ resp[r].success)
         => resp[r].data.url = WithDefaultScheme(UrlOf(r))

\* a request that has arrived has ended with its response
Answered(r) == pc[r] # "new" => (pc[r] = "done" /\ resp[r].sent)

\* C24: every request eventually produces a response, success or failure,
\* and exactly one: a request that has arrived stays arrived, one that has
\* ended stays ended, a response that was sent is never replaced, and from
\* some point on every request that has arrived has its response; this under
\* the condition that the body, the fetch and the insert, when made, settle.
C24_OneResponse ==
  /\ <>[](\A r \in Requests : Answered(r))
  /\ [][\A r \in Requests :
          /\ pc[r] # "new" => pc'[r] # "new"
          /\ pc[r] = "done" => pc'[r] = "done"
          /\ resp[r].sent => resp'[r] = resp[r]]_vars

\* C24 witness: both requests have their response, one after its fetch ran
\* into the timeout, the other after its insert threw
C24_Witness ==
  /\ pc[1] = "done" /\ resp[1].sent /\ ~resp[1].success
  /\ fetched[1] = FetchFailed("timeout of 10000ms exceeded")
  /\ pc[2] = "done" /\ resp[2].sent /\ resp[2].success
  /\ insertState[2] = "threw"

----------------------------------------------------------------------------
(* The claims about the URL helpers and the extractor, checked under       *)
(* SpecExtract.                                                            *)

\* the src or href of the i-th element, as the callbacks read it
RawUrl(i) == OrEmpty(xDoc[i].url)

\* new URL(raw, base) succeeds
Resolvable(raw) == NewUrlWithBase(raw, xBase).ok

\* the a elements that have a non-empty, resolvable href
GoodAnchors ==
  {i \in 1..Len(xDoc) : xDoc[i].tag = "a" /\ RawUrl(i) # <<>> /\ Resolvable(RawUrl(i))}

\* the img elements that have a non-empty, resolvable src that is an image URL
GoodImages ==
  {i \in 1..Len(xDoc) :
     /\ xDoc[i].tag = "img"
     /\ RawUrl(i) # <<>>
     /\ Resolvable(RawUrl(i))
     /\ isValidImageUrl(xNorm[i])}

\* C7: every image has a non-empty src and every link a non-empty href; an
\* element whose URL is empty, unresolvable or (img) no image URL contributes
\* no entry, and every other element contributes one.
C7_DropUnresolvable ==
  xPc = "extracted"
    => /\ \A k \in 1..Len(xContent.images) : xContent.images[k].src # <<>>
       /\ \A k \in 1..Len(xContent.links) : xContent.links[k].href # <<>>
       /\ Len(xContent.images) = Cardinality(GoodImages)
       /\ Len(xContent.links) = Cardinality(GoodAnchors)

\* C8, as claimed: normalizeUrl returns every valid absolute URL unchanged.
C8_AbsoluteUnchanged ==
  xPc # "input"
    => \A i \in 1..Len(xDoc) : NewUrl(RawUrl(i)).ok => xNorm[i] = RawUrl(i)

\* C8, amended: normalizeUrl returns unchanged every valid absolute URL that
\* starts with 'http://', 'https://' or 'data:', for every base URL.
C8_HttpAndDataUnchanged ==
  xPc # "input"
    => \A i \in 1..Len(xDoc) :
         (/\ NewUrl(RawUrl(i)).ok
          /\ \/ StartsWith(RawUrl(i), <<"http", ":", "/", "/">>)
             \/ StartsWith(RawUrl(i), <<"http", "s", ":", "/", "/">>)
             \/ StartsWith(RawUrl(i), <<"data", ":">>))
           => xNorm[i] = RawUrl(i)

\* C8 witness: 'https://b.com', which the parser would serialise with a path,
\* and a data: URL were normalised
C8_Witness ==
  /\ xPc = "normalized"
  /\ Len(xDoc) = 2
  /\ RawUrl(1) = UrlAbsBare /\ xNorm[1] = UrlAbsBare
  /\ RawUrl(2) = UrlDataText /\ xNorm[2] = UrlDataText

\* C9: a protocol-relative input is returned with the scheme of the base URL
\* put in front of it.
C9_InheritScheme ==
  xPc # "input"
    => \A i \in 1..Len(xDoc) :
         StartsWith(RawUrl(i), <<"/", "/">>)
           => xNorm[i] = Protocol(NewUrl(xBase)) \o RawUrl(i)

\* C10: a retained link is external exactly when its href has scheme http or
\* https and a host other than the host of the base URL.
C10_ExternalByHost ==
  xPc = "extracted"
    => \A k \in 1..Len(xContent.links) :
         NewUrl(xContent.links[k].href).ok
           => (xContent.links[k].isExternal
                 <=> /\ NewUrl(xContent.links[k].href).scheme \in {<<"http">>, <<"http", "s">>}
                     /\ Host(NewUrl(xContent.links[k].href)) # Host(NewUrl(xBase)))

\* the URL parsed, and its path ends, in any case of the letters, in an image
\* extension
ImagePathAsStated(parsed) ==
  /\ parsed.ok
  /\ \E e \in {<<".jpg">>, <<".jpeg">>, <<".png">>, <<".gif">>, <<".webp">>, <<".svg">>} :
       EndsWith(ToLowerCase(parsed.path), e)

\* the URL starts with 'data:image/', or it parses as an absolute URL whose
\* path ends, in any case of the letters, in an image extension
ImageUrlAsStated(url) ==
  \/ StartsWith(url, <<"data", ":", "image", "/">>)
  \/ ImagePathAsStated(NewUrl(url))

\* C23: isValidImageUrl(url) is true if and only if url starts with
\* 'data:image/' or url is a parseable absolute URL whose path (query and
\* fragment left aside) ends, case-insensitively, in one of .jpg, .jpeg, .png,
\* .gif, .webp, .svg; it is false for the empty string and for
\* 'https://example.com/file.pdf', and every image kept in the extracted
\* content satisfies it.
C23_ImageUrls ==
  /\ xPc = "input"
       => /\ ~isValidImageUrl(<<>>)
          /\ ~isValidImageUrl(<<"http", "s", ":", "/", "/", "example.com", "/", "file", ".pdf">>)
  /\ xPc = "normalized"
       => \A i \in 1..Len(xDoc) :
            /\ isValidImageUrl(RawUrl(i)) <=> ImageUrlAsStated(RawUrl(i))
            /\ isValidImageUrl(xNorm[i]) <=> ImageUrlAsStated(xNorm[i])
  /\ xPc = "extracted"
       => \A k \in 1..Len(xContent.images) : ImageUrlAsStated(xContent.images[k].src)

\* C23 witness: of an image with a query and a fragment after '.png', one
\* with an upper-case extension and a link to a .pdf given as src, the first
\* two were kept
C23_Witness ==
  /\ xPc = "extracted"
  /\ xBase = BaseHttps
  /\ Len(xDoc) = 2
  /\ xDoc[1].tag = "img" /\ xDoc[2].tag = "img"
  /\ \/ RawUrl(1) = UrlImageQuery /\ RawUrl(2) = UrlAbsOther
     \/ RawUrl(1) = UrlRelative /\ RawUrl(2) = UrlAbsOther
  /\ Len(xContent.images) = 1
  /\ xContent.images[1].src
       \in {UrlImageQuery, <<"http", "s", ":", "/", "/", "a.com", "/", "dir", "/", "x", ".PNG">>}

----------------------------------------------------------------------------
(* The claims about the two SEO analyses, checked under SpecSeo. *)

\* a finite number of [0, 100]
InRange(x) == IsFinite(x) /\ LessEq(Num(0), x) /\ LessEq(x, Num(100))

\* the levels of all headings of the page, in document order
PageLevels == LevelsOf(Select(sDoc, "h"))

\* C11: in every SeoAnalysis, of analyzeSEO and of calculateSEOScore, the
\* overall score and each of the ten check scores lie in [0, 100], for every
\* page and every load time >= 0.
C11_ScoresInRange ==
  sPc # "input"
    => /\ sOut.score >= 0
       /\ sOut.score <= 100
       /\ \A i \in 1..Len(CheckNames) : InRange(sOut.checks[CheckNames[i]].score)

\* the rule of the headings check as stated: exactly one h1 and no heading
\* more than one level below the one before it
SingleH1AndNoSkip(levels) ==
  /\ Cardinality({i \in 1..Len(levels) : levels[i] = 1}) = 1
  /\ \A i \in 2..Len(levels) : levels[i] <= levels[i - 1] + 1

\* C13: the headings check scores 100 if and only if the page has exactly one
\* h1 and, over all headings h1-h6 in document order, no heading's level
\* exceeds the level of the heading before it by more than 1; otherwise it
\* scores 60 ([h1, h3] scores 60, [h1, h2, h3] scores 100).
C13_HeadingsCheck ==
  sPc # "input"
    => sOut.checks.headings.score
         = IF SingleH1AndNoSkip(PageLevels) THEN Num(100) ELSE Num(60)

\* the checks of the analysis that score below 100, in declaration order
BelowHundred ==
  SelectSeq(CheckNames, LAMBDA name : Less(sOut.checks[name].score, Num(100)))

\* the dedicated improvement string of a check, where it has one
Improvement(name) ==
  CASE name = "title" -> "Optimize title length to be between 30-60 characters"
    [] name = "description" -> "Add or optimize meta description length"
    [] name = "headings" -> "Ensure proper heading hierarchy and single H1 tag"
    [] name = "images" -> "Add alt text to all images"
    [] name = "links" -> "Add a better mix of internal and external links"
    [] name = "meta" -> "Add missing meta tags for better social sharing"
    [] name = "mobile" -> "Enhance mobile responsiveness"
    [] OTHER -> sOut.checks[name].message

\* recs holds one entry for each check of below, in that order: its message
\* or its improvement string
OneEntryEach(recs, below) ==
  /\ Len(recs) = Len(below)
  /\ \A k \in 1..Len(recs) :
       k <= Len(below)
         => recs[k] \in {sOut.checks[below[k]].message, Improvement(below[k])}
  /\ \A j, k \in 1..Len(recs) : j # k => recs[j] # recs[k]

\* C14: the recommendations of a SeoAnalysis hold exactly one entry for each
\* of the ten checks that scores below 100 and none for a check scoring 100,
\* in check-declaration order, and the entries are pairwise distinct.
C14_Recommendations ==
  sPc # "input" => OneEntryEach(sOut.recommendations, BelowHundred)

\* the a elements of the page whose href resolves, against the URL of the
\* page, to a URL on the host of the page (same) or on another host
AnchorsByHost(same) ==
  SelectSeq(Select(sDoc, "a"),
            LAMBDA a : /\ OrEmpty(a.url) # <<>>
                       /\ NewUrlWithBase(OrEmpty(a.url), BaseHttps).ok
                       /\ (Host(NewUrlWithBase(OrEmpty(a.url), BaseHttps))
                             = Host(NewUrl(BaseHttps))) = same)

\* C21: the links check scores 100 if and only if the page contains at least
\* one internal link (same host as the page) and at least one external link
\* (different host); in every other case, a page whose only non-internal
\* anchors have no href included, it scores 70.
C21_LinksCheck ==
  sPc # "input"
    => sOut.checks.links.score
         = IF AnchorsByHost(TRUE) # <<>> /\ AnchorsByHost(FALSE) # <<>>
           THEN Num(100) ELSE Num(70)

\* the title of the page, as the record of the route carries it
PageTitle == Trim(TitleText(sDoc))

\* the recommendations about the length of the title
TitleAdvice ==
  {"Optimize title length to be between 30-60 characters",
   "Title length should be between 30-60 characters"}

\* C22: the title check scores 100 if and only if the length of the title is
\* between 30 and 60 characters inclusive and 50 otherwise, and whenever it
\* scores 50 the recommendations hold a recommendation about the length of
\* the title.
C22_TitleCheck ==
  sPc # "input"
    => /\ sOut.checks.title.score
            = IF Len(PageTitle) >= 30 /\ Len(PageTitle) <= 60 THEN Num(100) ELSE Num(50)
       /\ sOut.checks.title.score = Num(50)
            => \E k \in 1..Len(sOut.recommendations) : sOut.recommendations[k] \in TitleAdvice

----------------------------------------------------------------------------
(* The claims about the text metrics, checked under SpecText. *)

\* C12: calculateReadabilityScore returns a defined number of [0, 100] for
\* every text, the empty text and a single word included (no division by
\* zero, no NaN, no Infinity).
C12_ReadabilityInRange == tPc = "readability" => InRange(tOut)

\* C12 witness: the score of the empty text was computed and is 100, the
\* upper end of the range
C12_Witness ==
  /\ tPc = "readability"
  /\ tText = <<>>
  /\ tOut = Num(100)

\* the position of the first occurrence of a keyword among the tokens
FirstPosition(tokens, keyword) ==
  CHOOSE i \in 1..Len(tokens) :
    tokens[i] = keyword /\ \A j \in 1..(i - 1) : tokens[j] # keyword

\* top is ordered by non-increasing count, equal counts by first occurrence,
\* and carries the count and the density of each keyword
OrderedTop(top, tokens) ==
  /\ Len(top) <= 10
  /\ \A k \in 1..Len(top) :
       /\ top[k].count = CountOf(tokens, top[k].keyword)
       /\ top[k].count > 0
       /\ top[k].density = Quot(100 * top[k].count, Len(tokens))
  /\ \A j, k \in 1..Len(top) :
       j < k
         => \/ top[j].count > top[k].count
            \/ /\ top[j].count = top[k].count
               /\ FirstPosition(tokens, top[j].keyword)
                    < FirstPosition(tokens, top[k].keyword)

\* C16: analyzeKeywords returns at most 10 topKeywords, ordered by
\* non-increasing count, keywords of equal count in the order of their first
\* occurrence in the text, each with density 100 * count / (number of tokens
\* of length > 3).
C16_TopKeywords ==
  tPc = "keywords" => OrderedTop(tOut.topKeywords, KeywordTokens(tText))

\* the number of non-empty whitespace-separated tokens of a text: the
\* positions at which a run of other characters begins
TokenCount(text) ==
  Cardinality({i \in 1..Len(text) :
                 /\ text[i] \notin Whitespace
                 /\ (i = 1 \/ text[i - 1] \in Whitespace)})

\* C17: the record's wordCount is the number of non-empty
\* whitespace-separated tokens of the visible body text; it is 0 when the
\* body text is empty or white space only.
C17_WordCount == tPc = "content" => tOut.wordCount = TokenCount(tText)

\* n is the least integer that is not below count / 200
IsCeilOf200(n, count) == 200 * n >= count /\ 200 * (n - 1) < count

\* C18: in every returned record readingTime equals ceil(wordCount / 200)
\* for the same record's wordCount (a 250-word body gives 2), and
\* readingTime >= 1 whenever wordCount > 0.
C18_ReadingTime ==
  tPc = "content"
    => /\ IsCeilOf200(tOut.readingTime, tOut.wordCount)
       /\ (tOut.wordCount > 0 => tOut.readingTime >= 1)

\* C18 witness: the content of a body of 250 words was built, with
\* wordCount 250 and readingTime 2
C18_Witness ==
  /\ tPc = "content"
  /\ tText = Text250Words
  /\ tOut.wordCount = 250
  /\ tOut.readingTime = 2

\* the words of a text: its non-empty whitespace-separated tokens, lower-cased
LowerTokens(text) == FilterBoolean(SplitOn(TextToLowerCase(text), Whitespace))

\* the tokens that belong to a lexicon, in text order, duplicates kept
Matched(tokens, lexicon) == SelectSeq(tokens, LAMBDA t : t \in lexicon)

\* the number of pieces white space separates a text into: one more than
\* the number of its runs of white space
PieceCount(text) ==
  1 + Cardinality({i \in 1..Len(text) :
                     /\ text[i] \in Whitespace
                     /\ (i = 1 \/ text[i - 1] \notin Whitespace)})

\* sentiment is the sentiment of a text with these words and this number of
\* whitespace-separated pieces, as the claim states it
SentimentAsStated(sentiment, tokens, pieces) ==
  /\ sentiment.positive = Matched(tokens, PositiveLexicon)
  /\ sentiment.negative = Matched(tokens, NegativeLexicon)
  /\ sentiment.score
       = Quot(Len(Matched(tokens, PositiveLexicon))
                - Len(Matched(tokens, NegativeLexicon)),
              pieces)
  /\ (tokens = <<>> => sentiment.score = Num(0))

\* C19: analyzeSentiment(text) returns score = (positive-lexicon tokens -
\* negative-lexicon tokens) / (whitespace-separated tokens), 0 when the text
\* has no words, and its positive and negative lists are the matched tokens
\* of the lower-cased text in text order, duplicates kept ('good good bad':
\* score 1/3, positive [good, good], negative [bad]).
C19_Sentiment ==
  tPc = "sentiment"
    => SentimentAsStated(tOut, LowerTokens(tText), PieceCount(tText))

\* C19 witness: the sentiment of 'good good bad' was computed: score 1/3,
\* positive [good, good], negative [bad]
C19_Witness ==
  /\ tPc = "sentiment"
  /\ tText = TextGoodGoodBad
  /\ tOut.score = [num |-> 1, den |-> 3]
  /\ tOut.positive = <<WordGood, WordGood>>
  /\ tOut.negative = <<WordBad>>

----------------------------------------------------------------------------
(* The claims about the dashboard store, checked under SpecStore. *)

\* call i of scrapeUrl ends in this step
Ends(i) == scrapes[i].pc # "done" /\ scrapes'[i].pc = "done"

\* the message the claim states for a failure response
StatedMessage(result) ==
  IF result.error = "" THEN "Failed to scrape website" ELSE result.error

\* C25: when scrapeUrl receives a response with success = false, then at the
\* end of that call the store's error is the error message of the response,
\* or 'Failed to scrape website' when the response carries none, and loading
\* is false.
C25_FailureResponse ==
  [][\A i \in Scrapes :
       (Ends(i) /\ scrapes'[i].result.sent /\ ~scrapes'[i].result.success)
         => /\ store'.error = StatedMessage(scrapes'[i].result)
            /\ store'.loading = FALSE]_vars

\* C25 witness: a call has ended on a failure response without a message, and
\* the store holds the default message and is not loading
C25_Witness ==
  \E i \in Scrapes :
    /\ scrapes[i].pc = "done"
    /\ scrapes[i].result = ErrorResponse(500, "")
    /\ store.error = "Failed to scrape website"
    /\ store.loading = FALSE

\* C26: when scrapeUrl receives a success response whose data passes the
\* schema validation, then at the end of that call scrapedData is the data of
\* the response, error is null and loading is false, with and without a
\* persistence backend configured on the client.
C26_SuccessResponse ==
  [][\A i \in Scrapes :
       (Ends(i) /\ scrapes'[i].result.success /\ Validates(scrapes'[i].result.data))
         => /\ store'.scrapedData = scrapes'[i].result.data
            /\ store'.error = Null
            /\ store'.loading = FALSE]_vars

\* a top-level string field of the page contains the term when letter case
\* is ignored, as the claim states it
ShownAsStated(page, term) ==
  \E k \in DOMAIN page :
    /\ page[k].type = "string"
    /\ \E at \in 0..(Len(page[k].val) - Len(term)) :
         \A m \in 1..Len(term) :
           LowerChar(page[k].val[at + m]) = LowerChar(term[m])

\* the history list is the saved pages the claim states, in their order
ListAsStated ==
  /\ VisiblePages(store.savedPages, store.searchTerm)
       = SelectSeq(store.savedPages,
                   LAMBDA page : ShownAsStated(page, store.searchTerm))
  /\ store.searchTerm = <<>>
       => VisiblePages(store.savedPages, store.searchTerm) = store.savedPages

\* C27: the history list shows a saved page if and only if one of its
\* top-level string fields contains the search term case-insensitively, with
\* an empty search term every saved page is shown, and setSearchTerm changes
\* no field of the store other than searchTerm.
C27_HistoryFilter ==
  /\ []ListAsStated
  /\ [][store'.searchTerm # store.searchTerm
          => [store' EXCEPT !.searchTerm = store.searchTerm] = store]_vars

\* C27 witness: two pages are saved and the term 'good' was set: the list
\* shows the page titled 'Good' and hides the page whose nested text is 'good'
C27_Witness ==
  /\ store.savedPages = <<SavedGood, SavedBad>>
  /\ store.searchTerm = WordGood
  /\ VisiblePages(store.savedPages, store.searchTerm) = <<SavedGood>>

\* C28: for any interleaving of calls of scrapeUrl, the second of which may be
\* started from the re-scrape button of the history list while the first is
\* awaiting its response, loading is true in every state in which a call of
\* scrapeUrl has not finished.
C28_LoadingWhileRunning == Running # {} => store.loading = TRUE

\* call i ended on a success response whose data passed the validation
Succeeded(i) ==
  /\ scrapes[i].pc = "done"
  /\ scrapes[i].result.success
  /\ Validates(scrapes[i].result.data)

\* C29: when two calls of scrapeUrl overlap and both succeed, then after both
\* have finished scrapedData, and the stats derived from it, are those of the
\* call that was started last, in whichever order the two responses arrived.
C29_LastStartedWins ==
  \A first, last \in Scrapes :
    (/\ first \in scrapes[last].during
     /\ last = calls
     /\ Succeeded(first)
     /\ Succeeded(last))
      => /\ store.scrapedData = Parse(scrapes[last].result.data)
         /\ store.stats
              = Scraped(InitialStore, Parse(scrapes[last].result.data)).stats

\* C30: after a successful call of scrapeUrl has finished, stats.seoScore is
\* the seoAnalysis.score of the record the server returned, the score stored
\* in scrapedData: calculateSEOScore on the client agrees with analyzeSEO on
\* the server for the same page.
C30_ScoresAgree ==
  (\E i \in Scrapes : Succeeded(i))
    => store.stats.seoScore = store.scrapedData.seoAnalysis.score

====
